---- MODULE Spec2Model ----
(***************************************************************************)
(* Verification model of PersonSentimentAnalyzer.                          *)
(*                                                                         *)
(*   SpecAgg   : AnalysisService._aggregate_nlp_results and                *)
(*               AnalysisService.reaggregate_with_aliases                  *)
(*               (src/backend/app_logic.py)                                *)
(*   SpecCall  : AsyncVKAPI._call_method retry loop                        *)
(*               (src/backend/vk_parser/parser.py)                         *)
(*   SpecFetch : fetch_vk_data and VKGroupProcessor group tasks            *)
(*               (src/backend/vk_parser/parser.py)                         *)
(*   SpecGroup : the same for one group, over every wall                   *)
(*   SpecComments : VKGroupProcessor._parse_comments_for_post for one     *)
(*               post, over every comment feed and ceiling                 *)
(***************************************************************************)
EXTENDS Integers, Sequences, FiniteSets, TLC

VARIABLES
    \* ---- aggregation / alias merge (app_logic.py) ----
    aggPc,        \* "agg" | "failed" | "aggregated" | "ready" | "returned" | "mutated"
    nSeen,        \* judgments consumed so far by _aggregate_nlp_results
    metaEnded,    \* TRUE once i >= len(metadata_for_nlp)
    heapS,        \* object store of summary dicts: slot -> summary value
    heapM,        \* object store of mention lists: slot -> list value
    retS, retM,   \* slots of the collections the last merge call returned (0: none)
    callArgs,     \* alias list and canonical name of the last merge call
    validPairs    \* the (judgment, metadata) pairs handed to the running
                  \* aggregation so far that are complete: metadata present,
                  \* timestamp an int in range, entity and label non-empty

aggVars == <<aggPc, nSeen, metaEnded, heapS, heapM, retS, retM, callArgs, validPairs>>

VARIABLES
    \* ---- AsyncVKAPI._call_method (parser.py) ----
    callPc,       \* "idle" | "running" | "returned" | "raised"
    max_retries,  \* self.max_retries
    attempt,      \* loop variable of the retry loop
    requests,     \* number of session.post requests issued by the call
    sleeps,       \* the asyncio.sleep calls of the call, in order
    resps,        \* what each request of the call was answered with, in order
    callResult    \* the payload returned or the exception raised

callVars == <<callPc, max_retries, attempt, requests, sleeps, resps, callResult>>

VARIABLES
    \* ---- fetch_vk_data and its group tasks (parser.py) ----
    cpc,          \* fetch_vk_data: "start" | "gather" | "done" | "failed"
    token,        \* config.VK_SERVICE_TOKEN is set
    groups,       \* indices of group_identifiers
    wall,         \* per group: the wall the API serves, in API order
    store,        \* the lines of the output file
    lock,         \* writer_lock: 0 when free, else the group holding it
    total,        \* total_posts_saved_overall
    gpc,          \* per group task: control position
    offset,       \* per group: offset of _parse_posts
    collected,    \* per group: collected_posts_data / posts_in_period
    batch,        \* per group: all_group_data_to_write
    saved,        \* per group: group_posts_saved
    result,       \* per group: what the task returned (-1: nothing yet)
    faulted,      \* per group: some call or write of the task has failed
    fetchRet,     \* what fetch_vk_data returned (<<>>: nothing yet)
    clock,        \* time of the event loop, in hundredths of a second
    startedAt,    \* per group: time the task issued its first API call (-1: not yet)
    permits,      \* per group: permits of its semaphore in use
    inflight,     \* per group: the API calls in flight, by method name
    prior,        \* the lines the output file held when fetch_vk_data was called
    vk_group_id_numeric,  \* per group: self.vk_group_id_numeric (0: None)
    trail         \* per group: the API calls issued, the wall.get calls that failed,
                  \* the code-18 answers to comment calls and the lock
                  \* acquisitions, in order

fetchVars == <<cpc, token, groups, wall, store, lock, total,
               gpc, offset, collected, batch, saved, result, faulted,
               fetchRet, clock, startedAt, permits, inflight, prior,
               vk_group_id_numeric, trail>>

\* one call of VKGroupProcessor._parse_comments_for_post
VARIABLES
    comPc,                    \* "idle", "loop" (top of while True), "await", "returned"
    feed,                     \* the comments the API holds for the post, in its order
    max_comments_per_post,    \* self.max_comments_per_post (None or a number)
    comment_offset,           \* offset
    fetched_count,            \* fetched_count
    collected_comments_data,  \* collected_comments_data
    count_to_request,         \* count_to_request of the call in flight
    asked,                    \* the wall.getComments calls made: count, offset, and
                              \* fetched_count at the time of the call
    comFailed                 \* a call raised

comVars == <<comPc, feed, max_comments_per_post, comment_offset, fetched_count,
             collected_comments_data, count_to_request, asked, comFailed>>

\* the Streamlit session of app_ui.py; a value is None (<<>>) or <<value>>
VARIABLES
    initial_summary,                    \* st.session_state.initial_summary
    initial_detailed_mentions,          \* st.session_state.initial_detailed_mentions
    current_summary_display,            \* st.session_state.current_summary_display
    current_detailed_mentions_display,  \* st.session_state.current_detailed_mentions_display
    analysis_triggered_and_pending,     \* st.session_state.analysis_triggered_and_pending
    shared,         \* the displayed collections are the baseline objects themselves
    lastClick,      \* the button or block handled last: "", "start", "analysis",
                    \* "merge", "reset"
    lastAnalysis    \* what the most recent successful analysis handed to the
                    \* session: its summary and the mentions of its detail file

uiVars == <<initial_summary, initial_detailed_mentions, current_summary_display,
            current_detailed_mentions_display, analysis_triggered_and_pending,
            shared, lastClick, lastAnalysis>>

\* one call of AnalysisService.run_full_analysis
VARIABLES
    runPc,          \* "idle", "validate", "fetch", "preprocess", "nlp", "aggregate",
                    \* "save", "returned", "raised"
    runArgs,        \* pipeline_initialization_error, group_identifiers_str,
                    \* date_start_str, date_end_str
    fetchStarted,   \* number of calls of fetch_vk_data (each clears the store)
    runData,        \* what the stages have produced so far
    runResult       \* the dict returned (<<>>: none yet)

runVars == <<runPc, runArgs, fetchStarted, runData, runResult>>

vars == <<aggVars, callVars, fetchVars, comVars, uiVars, runVars>>

----------------------------------------------------------------------------
(* Generic helpers: Python dict / list operations *)

\* d[k] = v on a dict
Put(d, k, v) == [x \in (DOMAIN d) \cup {k} |-> IF x = k THEN v ELSE d[x]]

\* del d[k]
Del(d, k) == [x \in (DOMAIN d) \ {k} |-> d[x]]

EmptyDict == [x \in {} |-> 0]

RECURSIVE SumOver(_, _)
\* sum(f[x] for x in S)
SumOver(f, S) ==
    IF S = {} THEN 0
    ELSE LET x == CHOOSE y \in S : TRUE IN f[x] + SumOver(f, S \ {x})

\* set of elements of a list
Range(s) == {s[i] : i \in DOMAIN s}

\* sequences over S of length 0..n
SeqUpTo(S, n) == UNION {[1..k -> S] : k \in 0..n}

----------------------------------------------------------------------------
(* Bounds of the model *)

MaxMentions == 2     \* judgments handed to one aggregation, over all texts
MaxAliases == 2      \* length of the alias list of one merge

----------------------------------------------------------------------------
(* Strings.  Names are sequences of one-character strings so that          *)
(* str.strip() can be computed.                                            *)

Space == " "
NameA == <<"a">>
NameB == <<"b">>
NameC == <<"c">>
EmptyName == <<>>
BlankName == <<Space>>
\* Python None where a name is expected
NoneName == <<"None">>

RECURSIVE LStrip(_)
LStrip(s) == IF s # <<>> /\ Head(s) = Space THEN LStrip(Tail(s)) ELSE s

RECURSIVE RStrip(_)
RStrip(s) ==
    IF s # <<>> /\ s[Len(s)] = Space THEN RStrip(SubSeq(s, 1, Len(s) - 1)) ELSE s

\* str.strip()
Strip(s) == RStrip(LStrip(s))

----------------------------------------------------------------------------
(* _aggregate_nlp_results (app_logic.py:48-128) *)

\* self.tesa_id2label.values()
Labels == {"POS", "NEG", "NEU"}

Unknown == "UNKNOWN"

\* timestamps are scaled: one calendar day lasts DaySeconds units
DaySeconds == 2
Timestamps == {1, 2}

\* date_timestamp values: an int, a missing/None value, a value of a wrong type
\* (TypeError), a number outside the range of the platform's time_t
\* (OverflowError or OSError from datetime.fromtimestamp)
TsInt(n) == <<"int", n>>
TsNone == <<"none">>
TsBad == <<"str">>
TsHuge == <<"huge">>

\* metadata records of NLPDataPreprocessor, provenance cut to two fields
Metas ==
    {[date_timestamp |-> t, source_type |-> "post", source_id |-> 1] :
        t \in {TsInt(n) : n \in Timestamps} \cup {TsNone, TsBad, TsHuge}}

EntityNames == {NameA, NameB}

\* surface form of an entity as found in the text
Original(e) == <<"~">> \o e

\* judgments as SentimentPipeline.run builds them: a full judgment, or one
\* without entity_original carrying the length-mismatch label
Opinions ==
    {[entity |-> e, entity_original |-> Original(e), polarity |-> p] :
        e \in EntityNames \cup {EmptyName}, p \in {"POS", ""}}
    \cup {[entity |-> NameB, polarity |-> "ERROR_TESA_LENGTH_MISMATCH"]}

\* not opinion_pair.get("entity")
NoEntity(op) == "entity" \notin DOMAIN op \/ op.entity = EmptyName

\* not opinion_pair.get("polarity")
NoPolarity(op) == "polarity" \notin DOMAIN op \/ op.polarity = ""

\* opinion_pair.get("entity_original")
GetOriginal(op) == IF "entity_original" \in DOMAIN op THEN op.entity_original ELSE NoneName

\* datetime.fromtimestamp(date_ts).strftime("%Y-%m-%d")
DateKey(n) == n \div DaySeconds

SeedBucketNoUnknown == [l \in Labels |-> 0]

\* the bucket literal of a new (entity, date) pair
SeedBucket == [l \in Labels \cup {Unknown} |-> 0]

CountPolarityKnownOnly(bucket, polarity) ==
    IF polarity \in DOMAIN bucket
    THEN [ok |-> TRUE, bucket |-> [bucket EXCEPT ![polarity] = @ + 1]]
    ELSE [ok |-> TRUE, bucket |-> bucket]

\* bucket[polarity] += 1, or bucket["UNKNOWN"] += 1 (KeyError when absent)
CountPolarity(bucket, polarity) ==
    IF polarity \in DOMAIN bucket
    THEN [ok |-> TRUE, bucket |-> [bucket EXCEPT ![polarity] = @ + 1]]
    ELSE IF Unknown \in DOMAIN bucket
         THEN [ok |-> TRUE, bucket |-> [bucket EXCEPT ![Unknown] = @ + 1]]
         ELSE [ok |-> FALSE, bucket |-> bucket]

\* the record appended to detailed_mentions
MentionOf(op, meta, date_key, n) ==
    [entity_normalized |-> op.entity,
     entity_original |-> GetOriginal(op),
     polarity |-> op.polarity,
     date |-> date_key,
     timestamp |-> n,
     source_type |-> meta.source_type,
     source_id |-> meta.source_id]

\* body of the loop over text_opinions; st = [summary, mentions, ok]
AggregateOpinion(st, op, meta, n) ==
    IF ~st.ok \/ NoEntity(op) \/ NoPolarity(op) THEN st
    ELSE
        LET e == op.entity
            d == DateKey(n)
            S1 == IF e \in DOMAIN st.summary THEN st.summary
                  ELSE Put(st.summary, e, EmptyDict)
            S2 == IF d \in DOMAIN S1[e] THEN S1
                  ELSE Put(S1, e, Put(S1[e], d, SeedBucket))
            c == CountPolarity(S2[e][d], op.polarity)
        IN  IF ~c.ok THEN [st EXCEPT !.summary = S2, !.ok = FALSE]
            ELSE [summary |-> Put(S2, e, Put(S2[e], d, c.bucket)),
                  mentions |-> Append(st.mentions, MentionOf(op, meta, d, n)),
                  ok |-> TRUE]

RECURSIVE AggregateOpinions(_, _, _, _)
AggregateOpinions(st, ops, meta, n) ==
    IF ops = <<>> THEN st
    ELSE AggregateOpinions(AggregateOpinion(st, Head(ops), meta, n), Tail(ops), meta, n)

\* body of the loop over nlp_results_per_text for one text
AggregateOneText(st, ops, meta, hasMeta) ==
    IF ~hasMeta THEN st
    ELSE IF meta.date_timestamp \in {TsNone, TsBad} THEN st
    ELSE IF meta.date_timestamp = TsHuge THEN [st EXCEPT !.ok = FALSE]
    ELSE AggregateOpinions(st, ops, meta, meta.date_timestamp[2])

\* the aggregation of a list of complete (judgment, metadata) pairs
RECURSIVE AggregateComplete(_, _)
AggregateComplete(st, pairs) ==
    IF pairs = <<>> THEN st
    ELSE AggregateComplete(
             AggregateOpinion(st, Head(pairs).op, Head(pairs).meta,
                              Head(pairs).meta.date_timestamp[2]),
             Tail(pairs))

----------------------------------------------------------------------------
(* reaggregate_with_aliases (app_logic.py:130-178) *)

\* {label: 0 for label in tesa_id2label.values()} plus "UNKNOWN": the bucket
\* created under the canonical name for a date it does not have yet
MergeSeedBucket == [l \in Labels \cup {Unknown} |-> 0]

AddCountsOverwrite(cb, ab) ==
    [l \in (DOMAIN cb) \cup (DOMAIN ab) |-> IF l \in DOMAIN ab THEN ab[l] ELSE cb[l]]

\* canonical[date][sentiment] = canonical[date].get(sentiment, 0) + count
AddCounts(cb, ab) ==
    [l \in (DOMAIN cb) \cup (DOMAIN ab) |->
        (IF l \in DOMAIN cb THEN cb[l] ELSE 0) + (IF l \in DOMAIN ab THEN ab[l] ELSE 0)]

MergeDatesKnownOnly(cd, ad) ==
    [d \in DOMAIN cd |->
        IF d \in DOMAIN ad THEN AddCounts(cd[d], ad[d]) ELSE cd[d]]

\* the loop over new_summary[alias].items(): cd, ad are the date maps of the
\* canonical name and of the alias
MergeDates(cd, ad) ==
    [d \in (DOMAIN cd) \cup (DOMAIN ad) |->
        IF d \in DOMAIN ad
        THEN AddCounts(IF d \in DOMAIN cd THEN cd[d] ELSE MergeSeedBucket, ad[d])
        ELSE cd[d]]

MergeAliasAbsentCreated(S, alias, canonical) ==
    IF alias = canonical THEN S
    ELSE IF alias \in DOMAIN S
         THEN Del(Put(S, canonical, MergeDates(S[canonical], S[alias])), alias)
         ELSE Put(S, alias, EmptyDict)

\* body of the loop over aliases_to_merge
MergeAlias(S, alias, canonical) ==
    IF alias = canonical THEN S
    ELSE IF alias \in DOMAIN S
         THEN Del(Put(S, canonical, MergeDates(S[canonical], S[alias])), alias)
         ELSE S

RECURSIVE MergeAliases(_, _, _)
MergeAliases(S, aliases, canonical) ==
    IF aliases = <<>> THEN S
    ELSE MergeAliases(MergeAlias(S, Head(aliases), canonical), Tail(aliases), canonical)

RewriteMentionRebuilt(m, aliases, canonical) ==
    IF m.entity_normalized \in Range(aliases)
    THEN [entity_normalized |-> canonical, polarity |-> m.polarity, date |-> m.date]
    ELSE m

\* if mention.get("entity") in aliases_to_merge: mention["entity"] = canonical_name
RewriteMention(m, aliases, canonical) ==
    IF "entity" \in DOMAIN m /\ m["entity"] \in Range(aliases)
    THEN [m EXCEPT !["entity"] = canonical]
    ELSE m

IsBlankExact(name) == name = EmptyName

\* not canonical_name.strip()
IsBlank(name) == Strip(name) = EmptyName

EnsureCanonicalReset(S, canonical) == Put(S, canonical, EmptyDict)

\* if canonical_name not in new_summary: new_summary[canonical_name] = {}
EnsureCanonical(S, canonical) ==
    IF canonical \in DOMAIN S THEN S ELSE Put(S, canonical, EmptyDict)

\* the value returned; copied tells whether the collections are deep copies
\* or the argument objects themselves
Reaggregate(S, M, aliases, canonical) ==
    IF IsBlank(canonical)
    THEN [summary |-> S, mentions |-> M, copied |-> FALSE]
    ELSE
        LET S0 == EnsureCanonical(S, canonical)
        IN  [summary |-> MergeAliases(S0, aliases, canonical),
             mentions |-> [i \in DOMAIN M |-> RewriteMention(M[i], aliases, canonical)],
             copied |-> TRUE]

----------------------------------------------------------------------------
(* Aggregation session: one aggregation, then alias merges by a caller *)

AliasNames == {NameA, NameB}
Canonicals == {EmptyName, BlankName, NameA, NameC}

NoCall == [aliases |-> <<>>, canonical |-> EmptyName]

\* Object slots.  The caller's current summary and mention list live in slot
\* Cur; a deep copy made by a merge is a new object, in slot Fresh.
Cur == 1
Fresh == 2

\* the aggregation engine before its first call
AggIdle ==
    /\ aggPc = "agg"
    /\ nSeen = 0
    /\ metaEnded = FALSE
    /\ heapS = [i \in {Cur, Fresh} |-> EmptyDict]
    /\ heapM = [i \in {Cur, Fresh} |-> <<>>]
    /\ retS = 0
    /\ retM = 0
    /\ callArgs = NoCall
    /\ validPairs = <<>>

\* the judgments of one text that are complete, each with the metadata of the
\* text
CompletePairs(ops, meta, hasMeta) ==
    IF ~hasMeta \/ meta.date_timestamp[1] # "int" THEN <<>>
    ELSE LET good == SelectSeq(ops, LAMBDA op :
                         /\ "entity" \in DOMAIN op /\ op.entity # EmptyName
                         /\ "polarity" \in DOMAIN op /\ op.polarity # "")
         IN  [i \in 1..Len(good) |-> [op |-> good[i], meta |-> meta]]

\* one iteration of the loop over nlp_results_per_text
AggregateText(ops, meta, hasMeta) ==
    /\ aggPc = "agg"
    /\ nSeen + Len(ops) <= MaxMentions
    /\ metaEnded => ~hasMeta
    /\ LET st == AggregateOneText(
                     [summary |-> heapS[Cur], mentions |-> heapM[Cur], ok |-> TRUE],
                     ops, meta, hasMeta)
       IN  /\ heapS' = [heapS EXCEPT ![Cur] = st.summary]
           /\ heapM' = [heapM EXCEPT ![Cur] = st.mentions]
           /\ aggPc' = IF st.ok THEN "agg" ELSE "failed"
    /\ nSeen' = nSeen + Len(ops)
    /\ metaEnded' = ~hasMeta
    /\ validPairs' = validPairs \o CompletePairs(ops, meta, hasMeta)
    /\ UNCHANGED <<retS, retM, callArgs>>
    /\ UNCHANGED <<callVars, fetchVars, comVars, uiVars, runVars>>

\* return {"summary_by_entity_date": ..., "detailed_mentions": ...}
AggregateReturn ==
    /\ aggPc = "agg"
    /\ aggPc' = "aggregated"
    /\ nSeen' = 0
    /\ metaEnded' = FALSE
    /\ validPairs' = <<>>
    /\ UNCHANGED <<heapS, heapM, retS, retM, callArgs>>
    /\ UNCHANGED <<callVars, fetchVars, comVars, uiVars, runVars>>

\* a call reaggregate_with_aliases(current summary, current mentions, aliases, canonical)
Merge(aliases, canonical) ==
    /\ aggPc \in {"aggregated", "ready"}
    /\ LET r == Reaggregate(heapS[Cur], heapM[Cur], aliases, canonical)
       IN  /\ retS' = IF r.copied THEN Fresh ELSE Cur
           /\ retM' = IF r.copied THEN Fresh ELSE Cur
           /\ heapS' = IF r.copied THEN [heapS EXCEPT ![Fresh] = r.summary] ELSE heapS
           /\ heapM' = IF r.copied THEN [heapM EXCEPT ![Fresh] = r.mentions] ELSE heapM
    /\ callArgs' = [aliases |-> aliases, canonical |-> canonical]
    /\ aggPc' = "returned"
    /\ UNCHANGED <<nSeen, metaEnded, validPairs>>
    /\ UNCHANGED <<callVars, fetchVars, comVars, uiVars, runVars>>

\* the caller keeps the returned pair as its current pair and drops the old
\* one (the objects are renumbered: the kept pair becomes slot Cur)
Adopt ==
    /\ aggPc = "returned"
    /\ heapS' = [i \in {Cur, Fresh} |-> IF i = Cur THEN heapS[retS] ELSE EmptyDict]
    /\ heapM' = [i \in {Cur, Fresh} |-> IF i = Cur THEN heapM[retM] ELSE <<>>]
    /\ retS' = 0
    /\ retM' = 0
    /\ callArgs' = NoCall
    /\ aggPc' = "ready"
    /\ UNCHANGED <<nSeen, metaEnded, validPairs>>
    /\ UNCHANGED <<callVars, fetchVars, comVars, uiVars, runVars>>

\* the caller changes the returned collections in place: dict.clear(), list.clear()
MutateReturned ==
    /\ aggPc = "returned"
    /\ heapS' = [heapS EXCEPT ![retS] = EmptyDict]
    /\ heapM' = [heapM EXCEPT ![retM] = <<>>]
    /\ callArgs' = NoCall
    /\ aggPc' = "mutated"
    /\ UNCHANGED <<nSeen, metaEnded, retS, retM, validPairs>>
    /\ UNCHANGED <<callVars, fetchVars, comVars, uiVars, runVars>>

----------------------------------------------------------------------------
(* AsyncVKAPI._call_method (parser.py:65-118) *)

\* constructor defaults; delays in hundredths of a second
DefaultMaxRetries == 3
BaseRetryDelay == 100
RateLimitDelay == 1000
RateLimitStep == 500
DelayAfterApiCall == 37

RECURSIVE Pow2(_)
Pow2(n) == IF n = 0 THEN 1 ELSE 2 * Pow2(n - 1)

\* What one request can be answered with:
\*   ok            JSON body without an error object
\*   nonjson       Content-Type is not application/json
\*   err6, err29   JSON error object with that error_code
\*   err18, err5   JSON error object with another error_code
\*   client_error  aiohttp.ClientError (connection failure, bad HTTP status)
\*   timeout       asyncio.TimeoutError of the session's total timeout
Responses == {"ok", "nonjson", "err6", "err29", "err18", "err5", "client_error", "timeout"}

ErrorCode(r) ==
    CASE r = "err6" -> 6
      [] r = "err29" -> 29
      [] r = "err18" -> 18
      [] r = "err5" -> 5

NoResult == [kind |-> "none", what |-> "none", code |-> 0]
Payload == [kind |-> "payload", what |-> "response", code |-> 0]
\* VKAPIError(message, error_code); code 0 stands for error_code None
VKAPIError(what, code) == [kind |-> "VKAPIError", what |-> what, code |-> code]
TimeoutError == [kind |-> "TimeoutError", what |-> "timeout", code |-> 0]

Slept(kind, dur) == [kind |-> kind, dur |-> dur]

BackoffDelayConstant(a) == BaseRetryDelay

\* self.base_retry_delay_s * (2 ** attempt)
BackoffDelay(a) == BaseRetryDelay * Pow2(a)

RateDelayFlat(a) == RateLimitDelay

\* self.rate_limit_delay_s + (attempt * 5)
RateDelay(a) == RateLimitDelay + a * RateLimitStep

ApiErrors == {"err6", "err29", "err18", "err5"}

LastAttemptNever(a) == FALSE

\* attempt == self.max_retries - 1
LastAttempt(a) == a = max_retries - 1

RetryableAnyCode(code) == TRUE

\* the error codes that are slept on and retried: "if error_code == 6 ... elif
\* error_code == 29 ... else: raise"
Retryable(code) == code \in {6, 29}

\* the sleep taken for a retryable error code on attempt a
ErrorSleep(code, a) ==
    IF code = 6 THEN Slept("backoff", BackoffDelay(a)) ELSE Slept("rate", RateDelay(a))

CallIdle ==
    /\ callPc = "idle"
    /\ max_retries = DefaultMaxRetries
    /\ attempt = 0
    /\ requests = 0
    /\ sleeps = <<>>
    /\ resps = <<>>
    /\ callResult = NoResult

\* entry of _call_method, for a client built with max_retries in 0..3
InitCallState ==
    /\ callPc = "running"
    /\ max_retries \in 0..DefaultMaxRetries
    /\ attempt = 0
    /\ requests = 0
    /\ sleeps = <<>>
    /\ resps = <<>>
    /\ callResult = NoResult

Finish(pc, res, slept) ==
    /\ callPc' = pc
    /\ callResult' = res
    /\ sleeps' = sleeps \o slept
    /\ UNCHANGED attempt

RetrySameAttempt(slept) ==
    /\ attempt' = attempt
    /\ sleeps' = sleeps \o slept
    /\ UNCHANGED <<callPc, callResult>>

Retry(slept) ==
    /\ attempt' = attempt + 1
    /\ sleeps' = sleeps \o slept
    /\ UNCHANGED <<callPc, callResult>>

\* one iteration of "for attempt in range(self.max_retries)" whose request is
\* answered with r
Attempt(r) ==
    /\ callPc = "running"
    /\ attempt < max_retries
    /\ requests' = requests + 1
    /\ resps' = Append(resps, r)
    /\ UNCHANGED max_retries
    /\ CASE r = "nonjson" ->
                IF ~LastAttempt(attempt)
                THEN Retry(<<Slept("backoff", BackoffDelay(attempt))>>)
                ELSE Finish("raised", VKAPIError("content_type", 0), <<>>)
         [] r \in ApiErrors /\ Retryable(ErrorCode(r)) ->
                IF LastAttempt(attempt)
                THEN Finish("raised", VKAPIError("api_unresolved", ErrorCode(r)),
                            <<ErrorSleep(ErrorCode(r), attempt)>>)
                ELSE Retry(<<ErrorSleep(ErrorCode(r), attempt)>>)
         [] r \in ApiErrors /\ ~Retryable(ErrorCode(r)) ->
                Finish("raised", VKAPIError("api", ErrorCode(r)), <<>>)
         [] r = "ok" ->
                Finish("returned", Payload, <<Slept("polite", DelayAfterApiCall)>>)
         [] r = "client_error" ->
                IF LastAttempt(attempt)
                THEN Finish("raised", VKAPIError("network", 0), <<>>)
                ELSE Retry(<<Slept("backoff", BackoffDelay(attempt))>>)
         [] r = "timeout" ->
                Finish("raised", TimeoutError, <<>>)
    /\ UNCHANGED <<aggVars, fetchVars, comVars, uiVars, runVars>>

\* the statements after the loop: raise VKAPIError("Failed to call ... retries.")
Exhausted ==
    /\ callPc = "running"
    /\ attempt >= max_retries
    /\ callPc' = "raised"
    /\ callResult' = VKAPIError("exhausted", 0)
    /\ UNCHANGED <<max_retries, attempt, requests, sleeps, resps>>
    /\ UNCHANGED <<aggVars, fetchVars, comVars, uiVars, runVars>>

----------------------------------------------------------------------------
(* fetch_vk_data and VKGroupProcessor (parser.py:135-366) *)

NGroups == 2          \* groups requested in a multi-group run
MaxWall == 3          \* posts on a wall
StartTs == 1          \* start_ts of the window
EndTs == 2            \* end_ts of the window
PostsChunkSize == 2   \* config.POSTS_CHUNK_SIZE, scaled down

Min(a, b) == IF a < b THEN a ELSE b

Reverse(q) == [i \in 1..Len(q) |-> q[Len(q) + 1 - i]]

\* A wall item: its date, whether its text is non-empty after strip(), and the
\* comment count the API reports.  Its id is its position on the wall.
\* Dates run from before the window to after it.
\* the texts of wall items: whitespace only, and a word after a space
PostTexts == {BlankName, <<Space, "a">>}

PostItems ==
    {q \in [date : (StartTs - 1)..(EndTs + 1), text : PostTexts, ncom : {0, 1}] :
        Strip(q.text) # EmptyName \/ q.ncom = 0}

WithIds(w) ==
    [i \in 1..Len(w) |-> [id |-> i, date |-> w[i].date, text |-> w[i].text, ncom |-> w[i].ncom]]

\* every wall of at most MaxWall items, in any order (a pinned post comes first
\* whatever its date)
AllWalls == {WithIds(w) : w \in SeqUpTo(PostItems, MaxWall)}

\* the walls of a multi-group run: one post with a comment; two posts without
FetchWalls ==
    {WithIds(<<[date |-> EndTs, text |-> <<Space, "a">>, ncom |-> 1]>>),
     WithIds(<<[date |-> EndTs, text |-> <<Space, "a">>, ncom |-> 0],
               [date |-> StartTs, text |-> <<Space, "a">>, ncom |-> 0]>>)}

\* a line left in the output file by an earlier run
OldRecord == [g |-> 0, id |-> 0, date |-> 0, comments |-> 0]

\* wall.get(owner_id, count=posts_chunk_size, offset)["items"]
Page(w, off) == SubSeq(w, off + 1, Min(off + PostsChunkSize, Len(w)))

StopFetchingPostsInclusive(items) == items[Len(items)].date <= StartTs

\* stop_fetching_posts: the last (oldest) item of the page is before the period
StopFetchingPosts(items) == items[Len(items)].date < StartTs

\* len(items) < self.posts_chunk_size
EndOfWallNever(items) == FALSE

EndOfWall(items) == Len(items) < PostsChunkSize

\* the posts of a page that are collected
KeptExclusive(items) ==
    LET post_data(q) == [id |-> q.id, date |-> q.date, text |-> Strip(q.text), ncom |-> q.ncom]
        inPeriod == SelectSeq(items, LAMBDA q : q.date < EndTs /\ q.date > StartTs)
        all == [i \in 1..Len(inPeriod) |-> post_data(inPeriod[i])]
    IN  SelectSeq(all, LAMBDA d : d.text # EmptyName)

Kept(items) ==
    LET post_data(q) == [id |-> q.id, date |-> q.date, text |-> Strip(q.text), ncom |-> q.ncom]
        inPeriod == SelectSeq(items, LAMBDA q : ~(q.date > EndTs) /\ q.date >= StartTs)
        all == [i \in 1..Len(inPeriod) |-> post_data(inPeriod[i])]
    IN  SelectSeq(all, LAMBDA d : d.text # EmptyName)

\* one entry of all_group_data_to_write
Record(g, q, nc) == [g |-> g, id |-> q.id, date |-> q.date, comments |-> nc]

\* if post_data['comments_api_count'] > 0
SkipNoCommentsNever(g, col, b) == b

RECURSIVE SkipNoComments(_, _, _)
\* the loop over posts_in_period, run up to the next post whose comments have
\* to be fetched
SkipNoComments(g, col, b) ==
    IF Len(b) = Len(col) THEN b
    ELSE IF col[Len(b) + 1].ncom > 0 THEN b
    ELSE SkipNoComments(g, col, Append(b, Record(g, col[Len(b) + 1], 0)))

WriteOrderAsCollected(b) == b

\* reversed(all_group_data_to_write)
WriteOrder(b) == Reverse(b)

CanAcquireAlways(g) == TRUE

\* async with writer_lock: the lock is free
CanAcquire(g) == lock = 0

GatherCancelsSiblings(pcs, g) ==
    [h \in DOMAIN pcs |->
        IF h = g THEN "raised"
        ELSE IF pcs[h] \in {"done", "raised"} THEN pcs[h] ELSE "cancelled"]

\* asyncio.gather(*tasks, return_exceptions=True): the task states after task g
\* has raised
AfterRaise(pcs, g) == [pcs EXCEPT ![g] = "raised"]

RECURSIVE SumResults(_, _)
\* the loop over results: exceptions are printed, ints are added
SumResults(G, res) ==
    IF G = {} THEN 0
    ELSE LET g == CHOOSE h \in G : TRUE
         IN  (IF gpc[g] = "done" THEN res[g] ELSE 0) + SumResults(G \ {g}, res)

\* config.CONCURRENT_API_REQUESTS_PER_GROUP_SEMAPHORE
SemCapacity == 4

\* asyncio.sleep(0.05) of the task-creation loop, in hundredths of a second
StaggerDelay == 5

\* config.PARSED_DATA_OUTPUT_FILE
OutputFile == "output_file"

\* "async with self.semaphore" entered: one more permit in use
Acquire(p) == p + 1

ReleaseNever(p) == p

\* "async with self.semaphore" left: the permit is given back
Release(p) == p - 1

\* the API call a task has in flight at a control position
CallFor(pc) ==
    CASE pc = "resolving" -> <<"groups.getById">>
      [] pc = "posts" -> <<"wall.get">>
      [] pc = "comments" -> <<"wall.getComments">>
      [] OTHER -> <<>>

Event(m, arg) == [m |-> m, arg |-> arg]

\* the request a task sends on reaching a control position: the method, and the
\* offset asked for or the post whose comments are asked for
Issued(g) ==
    CASE gpc'[g] = "resolving" -> <<Event("groups.getById", g)>>
      [] gpc'[g] = "posts" -> <<Event("wall.get", offset'[g])>>
      [] gpc'[g] = "comments" ->
            <<Event("wall.getComments", collected'[g][Len(batch'[g]) + 1].id)>>
      [] OTHER -> <<>>

ResolvedAlways(out) == TRUE

\* _fetch_group_info returns True: groups.getById gave a non-empty list
Resolved(out) == out = "ok"

\* the semaphore block around a wall call is left and, when the task goes on
\* to another wall call, entered again for that call; a task blocks while its
\* semaphore has no free permit
AfterCall(g, answered) ==
    /\ permits' = [permits EXCEPT ![g] =
                      IF gpc'[g] \in {"posts", "comments"}
                      THEN Acquire(Release(permits[g]))
                      ELSE Release(permits[g])]
    /\ gpc'[g] \in {"posts", "comments"} => Release(permits[g]) < SemCapacity
    /\ inflight' = [inflight EXCEPT ![g] = CallFor(gpc'[g])]
    /\ trail' = [trail EXCEPT ![g] = trail[g] \o answered \o Issued(g)]

\* the sleeps of the loop that creates the coroutines
StaggerSleeps(n) == IF n > 1 THEN n * StaggerDelay ELSE 0

\* return output_file
ReturnValue(path, tot) == <<path>>

FetchIdle ==
    /\ cpc = "idle"
    /\ token = TRUE
    /\ groups = {}
    /\ wall = <<>>
    /\ store = <<>>
    /\ lock = 0
    /\ total = 0
    /\ gpc = <<>>
    /\ offset = <<>>
    /\ collected = <<>>
    /\ batch = <<>>
    /\ saved = <<>>
    /\ result = <<>>
    /\ faulted = <<>>
    /\ fetchRet = <<>>
    /\ clock = 0
    /\ startedAt = <<>>
    /\ permits = <<>>
    /\ inflight = <<>>
    /\ prior = <<>>
    /\ vk_group_id_numeric = <<>>
    /\ trail = <<>>

TruncateKeep(f) == f

\* with open(output_file, 'w'): the file is left empty
Truncate(f) == <<>>

\* entry of fetch_vk_data for n groups whose walls are drawn from ws, with the
\* token set or not (toks) and an output file left as one of olds
InitFetchState(n, ws, toks, olds) ==
    /\ cpc = "start"
    /\ token \in toks
    /\ groups = 1..n
    /\ wall \in [1..n -> ws]
    /\ store \in olds
    /\ lock = 0
    /\ total = 0
    /\ gpc = [g \in 1..n |-> "new"]
    /\ offset = [g \in 1..n |-> 0]
    /\ collected = [g \in 1..n |-> <<>>]
    /\ batch = [g \in 1..n |-> <<>>]
    /\ saved = [g \in 1..n |-> 0]
    /\ result = [g \in 1..n |-> -1]
    /\ faulted = [g \in 1..n |-> FALSE]
    /\ fetchRet = <<>>
    /\ clock = 0
    /\ startedAt = [g \in 1..n |-> -1]
    /\ permits = [g \in 1..n |-> 0]
    /\ inflight = [g \in 1..n |-> <<>>]
    /\ prior = store
    /\ vk_group_id_numeric = [g \in 1..n |-> 0]
    /\ trail = [g \in 1..n |-> <<>>]

\* fetch_vk_data up to the gather: date check, clearing the output file (which
\* may fail), token check, one coroutine per group.  The coroutines are only
\* scheduled by gather, so nothing runs during the sleeps of the loop.
StartRun(clearOk) ==
    /\ cpc = "start"
    /\ IF StartTs > EndTs
       THEN cpc' = "failed" /\ UNCHANGED <<store, gpc>>
       ELSE IF ~clearOk
       THEN cpc' = "failed" /\ UNCHANGED <<store, gpc>>
       ELSE IF ~token
       THEN cpc' = "failed" /\ store' = Truncate(store) /\ UNCHANGED gpc
       ELSE /\ cpc' = "gather"
            /\ store' = Truncate(store)
            /\ gpc' = [g \in groups |-> "ready"]
    /\ UNCHANGED <<token, groups, wall, lock, total, offset, collected, batch,
                   saved, result, faulted>>
    /\ clock' = clock + StaggerSleeps(Cardinality(groups))
    /\ UNCHANGED <<fetchRet, startedAt, permits, inflight>>
    /\ UNCHANGED <<vk_group_id_numeric, trail>>
    /\ UNCHANGED <<aggVars, callVars, comVars, uiVars, runVars, prior>>

\* gather schedules all tasks at once: each runs to its first await before the
\* event loop polls for I/O, so no reply is handled until all have started
AllStarted == \A h \in groups : gpc[h] # "ready"

\* a task starts running, in the order gather scheduled them, and issues
\* groups.getById
StartTask(g) ==
    /\ g \in groups
    /\ cpc = "gather"
    /\ gpc[g] = "ready"
    /\ \A h \in groups : h < g => gpc[h] # "ready"
    /\ gpc' = [gpc EXCEPT ![g] = "resolving"]
    /\ UNCHANGED <<cpc, token, groups, wall, store, lock, total, offset, collected,
                   batch, saved, result, faulted>>
    /\ startedAt' = [startedAt EXCEPT ![g] = clock]
    /\ inflight' = [inflight EXCEPT ![g] = CallFor(gpc'[g])]
    /\ UNCHANGED <<fetchRet, clock, permits>>
    /\ trail' = [trail EXCEPT ![g] = trail[g] \o Issued(g)]
    /\ UNCHANGED vk_group_id_numeric
    /\ UNCHANGED <<aggVars, callVars, comVars, uiVars, runVars, prior>>

\* the end of _parse_posts with posts col, and process_and_write_to_file up to
\* its next await
\* if not posts_in_period
NoPostsNever(col) == FALSE

NoPosts(col) == col = <<>>

EndPosts(g, col, off) ==
    /\ collected' = [collected EXCEPT ![g] = col]
    /\ offset' = [offset EXCEPT ![g] = off]
    /\ IF NoPosts(col)
       THEN /\ gpc' = [gpc EXCEPT ![g] = "done"]
            /\ result' = [result EXCEPT ![g] = 0]
            /\ UNCHANGED batch
       ELSE LET b == SkipNoComments(g, col, <<>>)
            IN  /\ batch' = [batch EXCEPT ![g] = b]
                /\ gpc' = [gpc EXCEPT ![g] =
                              IF Len(b) = Len(col) THEN "lockwait" ELSE "comments"]
                /\ UNCHANGED result

\* _fetch_group_info returns: a group, an empty list, or an error
ResolveReply(g, out) ==
    /\ g \in groups
    /\ gpc[g] = "resolving"
    /\ AllStarted
    /\ IF Resolved(out)
       THEN /\ gpc' = [gpc EXCEPT ![g] = "posts"]
            /\ UNCHANGED <<result, faulted>>
       ELSE /\ gpc' = [gpc EXCEPT ![g] = "done"]
            /\ result' = [result EXCEPT ![g] = 0]
            /\ faulted' = [faulted EXCEPT ![g] = TRUE]
    /\ UNCHANGED <<cpc, token, groups, wall, store, lock, total, offset, collected,
                   batch, saved>>
    /\ permits' = [permits EXCEPT ![g] = IF Resolved(out) THEN Acquire(permits[g]) ELSE permits[g]]
    /\ inflight' = [inflight EXCEPT ![g] = CallFor(gpc'[g])]
    /\ UNCHANGED <<fetchRet, clock, startedAt>>
    /\ vk_group_id_numeric' = [vk_group_id_numeric EXCEPT ![g] = IF out = "ok" THEN g ELSE 0]
    /\ trail' = [trail EXCEPT ![g] = trail[g] \o Issued(g)]
    /\ UNCHANGED <<aggVars, callVars, comVars, uiVars, runVars, prior>>

CollectedAfterErrorLost(col) == <<>>

\* "except VKAPIError ... break" and "except Exception ... break" of
\* _parse_posts: the loop ends and collected_posts_data is returned as it is
CollectedAfterError(col) == col

\* one wall.get call of _parse_posts returns a page or ends in an error
PageReply(g, out) ==
    /\ g \in groups
    /\ gpc[g] = "posts"
    /\ IF out = "error"
       THEN /\ EndPosts(g, CollectedAfterError(collected[g]), offset[g])
            /\ faulted' = [faulted EXCEPT ![g] = TRUE]
       ELSE /\ UNCHANGED faulted
            /\ LET items == Page(wall[g], offset[g])
                   col == collected[g] \o Kept(items)
               IN  IF items = <<>> THEN EndPosts(g, collected[g], offset[g])
                   ELSE IF StopFetchingPosts(items)
                   THEN EndPosts(g, col, offset[g])
                   ELSE IF EndOfWall(items)
                   THEN EndPosts(g, col, offset[g] + PostsChunkSize)
                   ELSE /\ collected' = [collected EXCEPT ![g] = col]
                        /\ offset' = [offset EXCEPT ![g] = offset[g] + PostsChunkSize]
                        /\ UNCHANGED <<gpc, batch, result>>
    /\ UNCHANGED <<cpc, token, groups, wall, store, lock, total, saved>>
    /\ AfterCall(g, IF out = "error" THEN <<Event("failed", offset[g])>> ELSE <<>>)
    /\ UNCHANGED <<fetchRet, clock, startedAt>>
    /\ UNCHANGED vk_group_id_numeric
    /\ UNCHANGED <<aggVars, callVars, comVars, uiVars, runVars, prior>>

CommentErrorCaughtExcept18(out) == out # "err18"

\* "except VKAPIError ... break" and "except Exception" of
\* _parse_comments_for_post, and the try around its call: no error of a
\* comment fetch leaves the loop over the posts
CommentErrorCaught(out) == TRUE

\* _parse_comments_for_post of the next post returns: its comments, or none
\* after error 18 or another error
CommentsReply(g, out) ==
    /\ g \in groups
    /\ gpc[g] = "comments"
    /\ UNCHANGED <<cpc, token, groups, wall, store, lock, total, offset, collected,
                   saved, result>>
    /\ LET q == collected[g][Len(batch[g]) + 1]
           nc == IF out = "ok" THEN q.ncom ELSE 0
           b == SkipNoComments(g, collected[g], Append(batch[g], Record(g, q, nc)))
       IN  /\ IF out = "ok" \/ CommentErrorCaught(out)
              THEN /\ batch' = [batch EXCEPT ![g] = b]
                   /\ gpc' = [gpc EXCEPT ![g] =
                                 IF Len(b) = Len(collected[g]) THEN "lockwait" ELSE "comments"]
              ELSE /\ gpc' = AfterRaise(gpc, g)
                   /\ UNCHANGED batch
           /\ AfterCall(g, IF out = "err18" THEN <<Event("code18", q.id)>> ELSE <<>>)
    /\ faulted' = [faulted EXCEPT ![g] = faulted[g] \/ out # "ok"]
    /\ UNCHANGED <<fetchRet, clock, startedAt>>
    /\ UNCHANGED vk_group_id_numeric
    /\ UNCHANGED <<aggVars, callVars, comVars, uiVars, runVars, prior>>

LockAfterFailureHeld(g) == g

\* the writer lock after the block "async with writer_lock" was left by
\* return 0 or by an exception: free (0)
LockAfterFailure(g) == 0

\* async with writer_lock
AcquireLock(g) ==
    /\ g \in groups
    /\ gpc[g] = "lockwait"
    /\ CanAcquire(g)
    /\ lock' = g
    /\ gpc' = [gpc EXCEPT ![g] = "writing"]
    /\ UNCHANGED <<cpc, token, groups, wall, store, total, offset, collected,
                   batch, saved, result, faulted>>
    /\ UNCHANGED <<fetchRet, clock, startedAt, permits, inflight>>
    /\ trail' = [trail EXCEPT ![g] = Append(trail[g], Event("writer_lock", g))]
    /\ UNCHANGED vk_group_id_numeric
    /\ UNCHANGED <<aggVars, callVars, comVars, uiVars, runVars, prior>>

\* One f_out.write of the batch (the model lets other tasks run between two
\* writes): it succeeds, fails with IOError, or raises another exception.
\* After the last one the file is closed, the lock released and the count
\* returned.
WriteRecord(g, out) ==
    /\ g \in groups
    /\ gpc[g] = "writing"
    /\ LET order == WriteOrder(batch[g])
       IN  CASE out = "ok" ->
                    /\ store' = Append(store, order[saved[g] + 1])
                    /\ saved' = [saved EXCEPT ![g] = saved[g] + 1]
                    /\ IF saved[g] + 1 = Len(order)
                       THEN /\ lock' = 0
                            /\ gpc' = [gpc EXCEPT ![g] = "done"]
                            /\ result' = [result EXCEPT ![g] = saved[g] + 1]
                       ELSE UNCHANGED <<lock, gpc, result>>
                    /\ UNCHANGED faulted
             [] out = "ioerror" ->
                    /\ lock' = LockAfterFailure(g)
                    /\ gpc' = [gpc EXCEPT ![g] = "done"]
                    /\ result' = [result EXCEPT ![g] = 0]
                    /\ faulted' = [faulted EXCEPT ![g] = TRUE]
                    /\ UNCHANGED <<store, saved>>
             [] out = "exception" ->
                    /\ lock' = LockAfterFailure(g)
                    /\ gpc' = AfterRaise(gpc, g)
                    /\ faulted' = [faulted EXCEPT ![g] = TRUE]
                    /\ UNCHANGED <<store, saved, result>>
    /\ UNCHANGED <<cpc, token, groups, wall, total, offset, collected, batch>>
    /\ UNCHANGED <<fetchRet, clock, startedAt, permits, inflight>>
    /\ UNCHANGED <<vk_group_id_numeric, trail>>
    /\ UNCHANGED <<aggVars, callVars, comVars, uiVars, runVars, prior>>

\* gather returns; the results are summed and the file path is returned
Collect ==
    /\ cpc = "gather"
    /\ \A g \in groups : gpc[g] \in {"done", "raised"}
    /\ total' = SumResults(groups, result)
    /\ cpc' = "done"
    /\ UNCHANGED <<token, groups, wall, store, lock, gpc, offset, collected, batch,
                   saved, result, faulted>>
    /\ fetchRet' = ReturnValue(OutputFile, total')
    /\ UNCHANGED <<clock, startedAt, permits, inflight>>
    /\ UNCHANGED <<vk_group_id_numeric, trail>>
    /\ UNCHANGED <<aggVars, callVars, comVars, uiVars, runVars, prior>>

----------------------------------------------------------------------------
(* VKGroupProcessor._parse_comments_for_post (parser.py:222-268) *)

MaxComments == 3         \* comments under a post
CommentsChunkSize == 2   \* config.COMMENTS_CHUNK_SIZE, scaled down

\* max_comments_per_post = None (no ceiling); ceilings are 0 or more
None == 0 - 1

\* A comment: its date and its raw text.  Its id is its position in the feed.
CommentItems == [date : (StartTs - 1)..(EndTs + 1), text : PostTexts]

Feeds == SeqUpTo(CommentItems, MaxComments)

Ceilings == {None} \cup 0..MaxComments

\* self.max_comments_per_post is not None and fetched_count >= self.max_comments_per_post
CeilingReached(cnt) ==
    max_comments_per_post # None /\ cnt >= max_comments_per_post

\* count_to_request (parser.py:239-243)
CountToRequestChunk(cnt) == CommentsChunkSize

CountToRequest(cnt) ==
    IF max_comments_per_post # None
    THEN Min(CommentsChunkSize, max_comments_per_post - cnt)
    ELSE CommentsChunkSize

\* wall.getComments(count, offset)["items"], with the ids of the comments
CommentsPage(f, count, off) ==
    [i \in 1..(Min(off + count, Len(f)) - Min(off, Len(f))) |->
        [id |-> off + i, date |-> f[off + i].date, text |-> f[off + i].text]]

\* if item['date'] > self.end_ts
AfterPeriodNever(item) == FALSE

AfterPeriod(item) == item.date > EndTs

\* if item['date'] < self.start_ts
BeforePeriod(item) == item.date < StartTs

\* the for loop over the items of one page, from item i on
RECURSIVE ScanComments(_, _, _, _)
ScanComments(items, i, col, cnt) ==
    IF i > Len(items) THEN [col |-> col, cnt |-> cnt, stop |-> FALSE]
    ELSE LET item == items[i]
             text == Strip(item.text)
             col2 == Append(col, [id |-> item.id, date |-> item.date, text |-> text])
         IN  IF AfterPeriod(item) THEN [col |-> col, cnt |-> cnt, stop |-> TRUE]
             ELSE IF BeforePeriod(item) THEN ScanComments(items, i + 1, col, cnt)
             ELSE IF text = EmptyName THEN ScanComments(items, i + 1, col, cnt)
             ELSE IF CeilingReached(cnt + 1)
                  THEN [col |-> col2, cnt |-> cnt + 1, stop |-> TRUE]
                  ELSE ScanComments(items, i + 1, col2, cnt + 1)

ComIdle ==
    /\ comPc = "idle"
    /\ feed = <<>>
    /\ max_comments_per_post = None
    /\ comment_offset = 0
    /\ fetched_count = 0
    /\ collected_comments_data = <<>>
    /\ count_to_request = 0
    /\ asked = <<>>
    /\ comFailed = FALSE

InitCommentsState ==
    /\ comPc = "loop"
    /\ feed \in Feeds
    /\ max_comments_per_post \in Ceilings
    /\ comment_offset = 0
    /\ fetched_count = 0
    /\ collected_comments_data = <<>>
    /\ count_to_request = 0
    /\ asked = <<>>
    /\ comFailed = FALSE

\* top of the while loop up to the wall_getComments call
CommentsRequest ==
    /\ comPc = "loop"
    /\ IF CeilingReached(fetched_count)
       THEN /\ comPc' = "returned"
            /\ UNCHANGED <<count_to_request, asked>>
       ELSE IF max_comments_per_post # None /\ max_comments_per_post - fetched_count <= 0
       THEN /\ comPc' = "returned"
            /\ UNCHANGED <<count_to_request, asked>>
       ELSE /\ comPc' = "await"
            /\ count_to_request' = CountToRequest(fetched_count)
            /\ asked' = Append(asked, [count |-> CountToRequest(fetched_count),
                                       offset |-> comment_offset,
                                       had |-> fetched_count])
    /\ UNCHANGED <<feed, max_comments_per_post, comment_offset, fetched_count,
                   collected_comments_data, comFailed>>
    /\ UNCHANGED <<aggVars, callVars, fetchVars, uiVars, runVars>>

\* the answer to wall_getComments and the rest of the loop body
CommentsChunk(out) ==
    /\ comPc = "await"
    /\ IF out = "error"
       THEN /\ comPc' = "returned"
            /\ comFailed' = TRUE
            /\ UNCHANGED <<comment_offset, fetched_count, collected_comments_data>>
       ELSE LET items == CommentsPage(feed, count_to_request, comment_offset)
                r == ScanComments(items, 1, collected_comments_data, fetched_count)
            IN  /\ UNCHANGED comFailed
                /\ IF items = <<>>
                   THEN /\ comPc' = "returned"
                        /\ UNCHANGED <<comment_offset, fetched_count,
                                       collected_comments_data>>
                   ELSE /\ collected_comments_data' = r.col
                        /\ fetched_count' = r.cnt
                        /\ IF r.stop
                           THEN /\ comPc' = "returned"
                                /\ UNCHANGED comment_offset
                           ELSE /\ comment_offset' = comment_offset + Len(items)
                                /\ comPc' = IF Len(items) < count_to_request
                                            THEN "returned" ELSE "loop"
    /\ UNCHANGED <<feed, max_comments_per_post, count_to_request, asked>>
    /\ UNCHANGED <<aggVars, callVars, fetchVars, uiVars, runVars>>

----------------------------------------------------------------------------
(* The merge session of the UI (app_ui.py:402-431, 518-564) *)

NoneVal == <<>>
Some(v) == <<v>>

\* json.dumps of a mention record and json.loads of the line
JsonLine(m) == [k \in DOMAIN m |-> <<"json", m[k]>>]
LoadLine(l) == [k \in DOMAIN l |-> l[k][2]]

\* the detail file of an analysis and load_detailed_results_from_file
WriteDetailFile(M) == [i \in DOMAIN M |-> JsonLine(M[i])]
LoadDetailFile(f) == [i \in DOMAIN f |-> LoadLine(f[i])]

\* the complete (judgment, metadata) pairs of the texts of an analysis
UiPairs ==
    {[op |-> [entity |-> e, entity_original |-> Original(e), polarity |-> "POS"],
      meta |-> [date_timestamp |-> TsInt(n), source_type |-> "post", source_id |-> 1]] :
        e \in {NameA, NameB}, n \in Timestamps}

MaxUiMentions == 2   \* mentions of one analysis

\* what _aggregate_nlp_results gives for them
UiAggregations ==
    {AggregateComplete([summary |-> EmptyDict, mentions |-> <<>>, ok |-> TRUE], ps) :
        ps \in SeqUpTo(UiPairs, MaxUiMentions)}

\* the results run_full_analysis hands to the session (app_logic.py:203-250):
\* an error, a message without summary, a summary with its detail file, a
\* summary without file (nothing to save, or the file could not be written)
AnalysisResults ==
    {[kind |-> "error"], [kind |-> "message"]}
    \cup {[kind |-> "summary", summary |-> a.summary,
           detailed_results_file |-> Some(WriteDetailFile(a.mentions))] :
               a \in {x \in UiAggregations : x.mentions # <<>>}}
    \cup {[kind |-> "summary", summary |-> a.summary, detailed_results_file |-> NoneVal] :
               a \in UiAggregations}

\* line 549: the baseline mentions after a run with a summary
BaselineMentionsKept(old, loaded) == old

BaselineMentions(old, loaded) == Some(loaded)

\* value or []
OrEmpty(x) == IF x = NoneVal THEN <<>> ELSE x[1]

UiIdle ==
    /\ initial_summary = NoneVal
    /\ initial_detailed_mentions = NoneVal
    /\ current_summary_display = NoneVal
    /\ current_detailed_mentions_display = NoneVal
    /\ analysis_triggered_and_pending = FALSE
    /\ shared = FALSE
    /\ lastClick = ""
    /\ lastAnalysis = NoneVal

\* the "start analysis" button of the sidebar (app_ui.py:272-282)
StartAnalysis ==
    /\ ~analysis_triggered_and_pending
    /\ current_summary_display' = NoneVal
    /\ current_detailed_mentions_display' = NoneVal
    /\ initial_summary' = NoneVal
    /\ analysis_triggered_and_pending' = TRUE
    /\ shared' = FALSE
    /\ lastClick' = "start"
    /\ UNCHANGED <<initial_detailed_mentions, lastAnalysis>>
    /\ UNCHANGED <<aggVars, callVars, fetchVars, comVars, runVars>>

\* the analysis run block: run_full_analysis has returned res
AnalysisReturned(res) ==
    /\ analysis_triggered_and_pending
    /\ analysis_triggered_and_pending' = FALSE
    /\ shared' = FALSE
    /\ lastClick' = "analysis"
    /\ CASE res.kind = "error" ->
              UNCHANGED <<initial_summary, initial_detailed_mentions,
                          current_summary_display, current_detailed_mentions_display,
                          lastAnalysis>>
         [] res.kind = "message" ->
              /\ current_summary_display' = Some(EmptyDict)
              /\ current_detailed_mentions_display' = Some(<<>>)
              /\ initial_summary' = Some(EmptyDict)
              /\ initial_detailed_mentions' = Some(<<>>)
              /\ lastAnalysis' = Some([summary |-> EmptyDict, mentions |-> <<>>])
         [] res.kind = "summary" ->
              LET mentions_from_file ==
                      IF res.detailed_results_file = NoneVal THEN <<>>
                      ELSE LoadDetailFile(res.detailed_results_file[1])
              IN  /\ initial_summary' = Some(res.summary)
                  /\ initial_detailed_mentions' =
                         BaselineMentions(initial_detailed_mentions, mentions_from_file)
                  /\ current_summary_display' = Some(res.summary)
                  /\ current_detailed_mentions_display' = Some(mentions_from_file)
                  /\ lastAnalysis' = Some([summary |-> res.summary,
                                           mentions |-> mentions_from_file])
    /\ UNCHANGED <<aggVars, callVars, fetchVars, comVars, runVars>>

\* the analysis run block: run_full_analysis raised (lines 559-564)
AnalysisRaised ==
    /\ analysis_triggered_and_pending
    /\ analysis_triggered_and_pending' = FALSE
    /\ current_summary_display' = NoneVal
    /\ initial_summary' = NoneVal
    /\ lastClick' = "analysis"
    /\ UNCHANGED <<initial_detailed_mentions, current_detailed_mentions_display,
                   shared, lastAnalysis>>
    /\ UNCHANGED <<aggVars, callVars, fetchVars, comVars, runVars>>

\* the persons offered by the multiselect: the keys of the displayed summary
Options == IF current_summary_display = NoneVal THEN {} ELSE DOMAIN current_summary_display[1]

\* the "merge selected" button (lines 413-431)
UiMerge(selected, canon_name) ==
    /\ ~analysis_triggered_and_pending
    /\ current_summary_display # NoneVal
    /\ Len(selected) > 1
    /\ Range(selected) \subseteq Options
    /\ \A i, j \in DOMAIN selected : i # j => selected[i] # selected[j]
    /\ IF Strip(canon_name) # EmptyName
       THEN LET r == Reaggregate(current_summary_display[1],
                                 OrEmpty(current_detailed_mentions_display),
                                 selected, Strip(canon_name))
            IN  /\ current_summary_display' = Some(r.summary)
                /\ current_detailed_mentions_display' = Some(r.mentions)
                /\ shared' = IF r.copied THEN FALSE ELSE shared
                /\ IF ~r.copied /\ shared
                   THEN /\ initial_summary' = Some(r.summary)
                        /\ initial_detailed_mentions' = Some(r.mentions)
                   ELSE UNCHANGED <<initial_summary, initial_detailed_mentions>>
       ELSE UNCHANGED <<initial_summary, initial_detailed_mentions,
                        current_summary_display, current_detailed_mentions_display,
                        shared>>
    /\ lastClick' = "merge"
    /\ UNCHANGED <<analysis_triggered_and_pending, lastAnalysis>>
    /\ UNCHANGED <<aggVars, callVars, fetchVars, comVars, runVars>>

\* the "reset all merges" button (lines 402-411)
UiReset ==
    /\ ~analysis_triggered_and_pending
    /\ current_summary_display # NoneVal
    /\ initial_summary # NoneVal
    /\ current_summary_display' = Some(initial_summary[1])
    /\ current_detailed_mentions_display' = Some(OrEmpty(initial_detailed_mentions))
    /\ shared' = FALSE
    /\ lastClick' = "reset"
    /\ UNCHANGED <<initial_summary, initial_detailed_mentions,
                   analysis_triggered_and_pending, lastAnalysis>>
    /\ UNCHANGED <<aggVars, callVars, fetchVars, comVars, runVars>>

----------------------------------------------------------------------------
(* AnalysisService.run_full_analysis (app_logic.py:180-250) *)

\* group_identifiers_str, as the list of its pieces between commas
GroupStrings ==
    {<<EmptyName>>, <<BlankName, EmptyName>>, <<NameA>>, <<<<Space>> \o NameA, NameB>>}

\* [gid.strip() for gid in group_identifiers_str.split(',') if gid.strip()]
GroupList(str) ==
    LET stripped == [i \in DOMAIN str |-> Strip(str[i])]
    IN  SelectSeq(stripped, LAMBDA gid : gid # EmptyName)

\* date strings: "YYYY-MM-DD" texts of day 1 and day 2, and a text that is no date
DateStrings == {<<"ymd", 1>>, <<"ymd", 2>>, <<"text">>}

\* datetime.datetime.strptime(s, "%Y-%m-%d").date(): the day, or ValueError
StrpTime(str) ==
    IF str[1] = "ymd" THEN [ok |-> TRUE, date |-> str[2]] ELSE [ok |-> FALSE, date |-> 0]

RunArgs ==
    [pipeline_initialization_error : BOOLEAN, group_identifiers_str : GroupStrings,
     date_start_str : DateStrings, date_end_str : DateStrings]

\* the error result the first try block ends with, if any (app_logic.py:204-211)
ValidationError(args) ==
    IF GroupList(args.group_identifiers_str) = <<>> THEN Some("empty group list")
    ELSE IF ~StrpTime(args.date_start_str).ok THEN Some("ValueError")
    ELSE IF ~StrpTime(args.date_end_str).ok THEN Some("ValueError")
    ELSE IF StrpTime(args.date_start_str).date > StrpTime(args.date_end_str).date
         THEN Some("start after end")
    ELSE NoneVal

\* the stages whose call stands in a try block with except Exception
CaughtOnlyCollector(stage) == stage = "fetch"

Caught(stage) == stage \in {"fetch", "preprocess", "nlp", "save"}

ErrorResult(why) == Some([kind |-> "error", why |-> why])

RunIdle ==
    /\ runPc = "idle"
    /\ runArgs = <<>>
    /\ fetchStarted = 0
    /\ runData = <<>>
    /\ runResult = <<>>

InitRunState ==
    /\ runPc = "validate"
    /\ runArgs \in RunArgs
    /\ fetchStarted = 0
    /\ runData = <<>>
    /\ runResult = <<>>

\* lines 202-211: the pipeline check and the first try block
RunValidate ==
    /\ runPc = "validate"
    /\ IF runArgs.pipeline_initialization_error
       THEN runPc' = "returned" /\ runResult' = ErrorResult("pipeline")
       ELSE IF ValidationError(runArgs) # NoneVal
       THEN runPc' = "returned" /\ runResult' = ErrorResult(ValidationError(runArgs)[1])
       ELSE runPc' = "fetch" /\ UNCHANGED runResult
    /\ UNCHANGED <<runArgs, fetchStarted, runData>>
    /\ UNCHANGED <<aggVars, callVars, fetchVars, comVars, uiVars>>

\* a stage ends: it returned normally (out = "ok"), returned nothing to go on
\* with (out = "none"), or raised (out = "raise")
RunStage(stage, out, next) ==
    /\ runPc = stage
    /\ runData' = Append(runData, <<stage, out>>)
    /\ fetchStarted' = IF stage = "fetch" THEN fetchStarted + 1 ELSE fetchStarted
    /\ IF out = "raise"
       THEN IF Caught(stage)
            THEN IF stage = "save"
                 THEN /\ runPc' = "returned"
                      /\ runResult' = Some([kind |-> "summary", file |-> FALSE])
                 ELSE /\ runPc' = "returned"
                      /\ runResult' = ErrorResult(stage)
            ELSE /\ runPc' = "raised"
                 /\ UNCHANGED runResult
       ELSE IF out = "none"
       THEN /\ runPc' = "returned"
            /\ runResult' = CASE stage = "fetch" -> ErrorResult("no file")
                               [] stage = "preprocess" -> Some([kind |-> "message"])
                               [] OTHER -> Some([kind |-> "summary", file |-> FALSE])
       ELSE IF next = "returned"
            THEN /\ runPc' = "returned"
                 /\ runResult' = Some([kind |-> "summary", file |-> TRUE])
            ELSE /\ runPc' = next
                 /\ UNCHANGED runResult
    /\ UNCHANGED runArgs
    /\ UNCHANGED <<aggVars, callVars, fetchVars, comVars, uiVars>>

\* lines 213-220: fetch_vk_data; "none": no path or no such file
RunFetch(out) == runPc = "fetch" /\ RunStage("fetch", out, "preprocess")

\* lines 221-227: extract_and_prepare_input; "none": no texts
RunPreprocess(out) == runPc = "preprocess" /\ RunStage("preprocess", out, "nlp")

\* lines 229-233: nlp_pipeline.run
RunNlp(out) == out # "none" /\ RunStage("nlp", out, "aggregate")

\* line 234: _aggregate_nlp_results; "none": no mention to save
RunAggregate(out) == runPc = "aggregate" /\ RunStage("aggregate", out, "save")

\* lines 237-246: the detail file is written
RunSave(out) == out # "none" /\ RunStage("save", out, "returned")

----------------------------------------------------------------------------
(* Specifications *)

InitAgg == AggIdle /\ CallIdle /\ FetchIdle /\ ComIdle /\ UiIdle /\ RunIdle

NextAgg ==
    \/ \E ops \in SeqUpTo(Opinions, MaxMentions), meta \in Metas, hasMeta \in BOOLEAN :
           AggregateText(ops, meta, hasMeta)
    \/ AggregateReturn
    \/ \E aliases \in SeqUpTo(AliasNames, MaxAliases), canonical \in Canonicals :
           Merge(aliases, canonical)
    \/ Adopt
    \/ MutateReturned

SpecAgg == InitAgg /\ [][NextAgg]_vars

InitCall == InitCallState /\ AggIdle /\ FetchIdle /\ ComIdle /\ UiIdle /\ RunIdle

NextCall ==
    \/ \E r \in Responses : Attempt(r)
    \/ Exhausted

SpecCall == InitCall /\ [][NextCall]_vars

NextFetch ==
    \/ \E clearOk \in BOOLEAN : StartRun(clearOk)
    \/ \E g \in 1..NGroups : StartTask(g)
    \/ \E g \in 1..NGroups, out \in {"ok", "empty", "error"} : ResolveReply(g, out)
    \/ \E g \in 1..NGroups, out \in {"ok", "error"} : PageReply(g, out)
    \/ \E g \in 1..NGroups, out \in {"ok", "err18", "error"} : CommentsReply(g, out)
    \/ \E g \in 1..NGroups : AcquireLock(g)
    \/ \E g \in 1..NGroups, out \in {"ok", "ioerror", "exception"} : WriteRecord(g, out)
    \/ Collect

\* a run for NGroups groups
InitFetch ==
    /\ InitFetchState(NGroups, FetchWalls, BOOLEAN, {<<>>, <<OldRecord>>})
    /\ AggIdle
    /\ CallIdle
    /\ ComIdle
    /\ UiIdle
    /\ RunIdle

SpecFetch == InitFetch /\ [][NextFetch]_vars

\* a run for one group, over every wall
InitGroup == InitFetchState(1, AllWalls, {TRUE}, {<<>>}) /\ AggIdle /\ CallIdle /\ ComIdle
                /\ UiIdle /\ RunIdle

SpecGroup == InitGroup /\ [][NextFetch]_vars

\* The event loop runs every task that is ready and every call is answered or
\* fails in the end (the session has a total timeout), so a run never stops
\* while a step is possible.
SpecGroupFair == SpecGroup /\ WF_vars(NextFetch)

\* the same for the multi-group run
SpecFetchFair == SpecFetch /\ WF_vars(NextFetch)

InitComments == InitCommentsState /\ AggIdle /\ CallIdle /\ FetchIdle /\ UiIdle /\ RunIdle

NextComments ==
    \/ CommentsRequest
    \/ \E out \in {"ok", "error"} : CommentsChunk(out)

SpecComments == InitComments /\ [][NextComments]_vars

InitUi == UiIdle /\ AggIdle /\ CallIdle /\ FetchIdle /\ ComIdle /\ RunIdle

UiCanonicals == {BlankName, NameA, <<Space>> \o NameC}

NextUi ==
    \/ StartAnalysis
    \/ \E res \in AnalysisResults : AnalysisReturned(res)
    \/ AnalysisRaised
    \/ \E selected \in SeqUpTo(EntityNames, 2), canon_name \in UiCanonicals :
           UiMerge(selected, canon_name)
    \/ UiReset

SpecUi == InitUi /\ [][NextUi]_vars

InitRun == InitRunState /\ AggIdle /\ CallIdle /\ FetchIdle /\ ComIdle /\ UiIdle

StageOutcomes == {"ok", "none", "raise"}

NextRun ==
    \/ RunValidate
    \/ \E out \in StageOutcomes : RunFetch(out)
    \/ \E out \in StageOutcomes : RunPreprocess(out)
    \/ \E out \in StageOutcomes : RunNlp(out)
    \/ \E out \in StageOutcomes : RunAggregate(out)
    \/ \E out \in StageOutcomes : RunSave(out)

SpecRun == InitRun /\ [][NextRun]_vars

----------------------------------------------------------------------------
(* Properties of the fetcher *)

\* the records of group g in the output file, in file order
GroupBlock(g) == SelectSeq(store, LAMBDA r : r.g = g)

Contiguous(q) ==
    \A i, j, k \in 1..Len(q) : (i < j /\ j < k /\ q[i].g = q[k].g) => q[j].g = q[i].g

\* C1: at most one group task is inside the store-append section at a time,
\* and the records of each group form one contiguous block of the store: no
\* record of one group lies between two records of another group.
C1_WriterExclusion ==
    /\ \A g, h \in groups : (gpc[g] = "writing" /\ gpc[h] = "writing") => g = h
    /\ \A g \in groups : gpc[g] = "writing" => lock = g
    /\ Contiguous(store)

\* a task waits for the lock while another is in the middle of its batch, after
\* which both batches are in the store
C1_Witness ==
    \E g, h \in groups :
        /\ g # h
        /\ gpc[g] = "writing"
        /\ saved[g] >= 1
        /\ saved[g] < Len(batch[g])
        /\ gpc[h] = "lockwait"

NewestFirst(w) == \A i, j \in 1..Len(w) : i < j => w[i].date >= w[j].date

NonDecreasing(q) == \A i, j \in 1..Len(q) : i < j => q[i].date <= q[j].date

\* C2: when the wall of a group is returned newest-first, the records the group
\* writes to the store are in non-decreasing timestamp order, however many
\* pages were fetched.
C2_AscendingTimestamps ==
    \A g \in groups : NewestFirst(wall[g]) => NonDecreasing(GroupBlock(g))

\* a newest-first wall fetched in more than one page, written completely, with
\* records of different dates
C2_Witness ==
    /\ cpc = "done"
    /\ \E g \in groups :
        /\ NewestFirst(wall[g])
        /\ offset[g] >= PostsChunkSize
        /\ Len(GroupBlock(g)) > PostsChunkSize
        /\ GroupBlock(g)[1].date < GroupBlock(g)[Len(GroupBlock(g))].date

\* the records a run for the wall w of group g alone writes when nothing fails:
\* the posts inside the window that have text, oldest first, each with its
\* comments
AloneRecords(g, w) ==
    LET inWindow == SelectSeq(w, LAMBDA q : q.date >= StartTs /\ q.date <= EndTs /\ Strip(q.text) # EmptyName)
    IN  [i \in 1..Len(inWindow) |->
            [g |-> g,
             id |-> inWindow[Len(inWindow) + 1 - i].id,
             date |-> inWindow[Len(inWindow) + 1 - i].date,
             comments |-> inWindow[Len(inWindow) + 1 - i].ncom]]

\* C3: when a group task fails (resolution fails, a call ends in an error, or
\* the task raises) no sibling is cancelled, and every task that met no
\* failure itself completes with its records written exactly as in a run
\* without the failing group.
C3_FailureIsolation ==
    /\ \A g \in groups : gpc[g] # "cancelled"
    /\ \A g \in groups :
          (gpc[g] = "done" /\ ~faulted[g]) =>
              /\ GroupBlock(g) = AloneRecords(g, wall[g])
              /\ result[g] = Len(AloneRecords(g, wall[g]))
    /\ cpc = "done" => \A g \in groups : gpc[g] \in {"done", "raised"}

\* a task has raised, and the run has ended with the records of a sibling that
\* met no failure written
C3_Witness ==
    /\ cpc = "done"
    /\ \E g, h \in groups :
        /\ gpc[g] = "raised"
        /\ gpc[h] = "done"
        /\ ~faulted[h]
        /\ GroupBlock(h) # <<>>
        /\ GroupBlock(h) = AloneRecords(h, wall[h])

RECURSIVE Appended(_, _)
\* n plus the number of records the group tasks of G have written so far
Appended(G, n) ==
    IF G = {} THEN n
    ELSE LET g == CHOOSE h \in G : TRUE IN Appended(G \ {g}, n + saved[g])

\* C21: the store is truncated before any group task writes; when the run has
\* finished the store holds exactly the records this run's groups appended and
\* none the file held before the run.
C21_TruncatedFirst ==
    /\ cpc = "start" => (store = prior /\ \A g \in groups : gpc[g] = "new")
    /\ cpc \in {"gather", "done"} =>
          /\ \A i \in 1..Len(store) : store[i].g \in groups
          /\ Len(store) = Appended(groups, 0)
          /\ \A g \in groups :
                GroupBlock(g) = SubSeq(WriteOrder(batch[g]), 1, saved[g])

\* a run over a file that held a line of an earlier run has finished with
\* records of its own in the store
C21_Witness ==
    /\ cpc = "done"
    /\ prior = <<OldRecord>>
    /\ store # <<>>
    /\ \A i \in 1..Len(store) : store[i] # OldRecord

Methods(g) == [i \in 1..Len(trail[g]) |-> trail[g][i].m]

\* C22: when resolving a group fails or returns no group, the task returns 0
\* without raising, issues no wall.get or wall.getComments call, never
\* acquires the writer lock and appends nothing to the store; the run goes on.
C22_ResolveFailureAbortsGroup ==
    \A g \in groups :
        (gpc[g] \notin {"new", "ready", "resolving"} /\ vk_group_id_numeric[g] = 0) =>
            /\ gpc[g] = "done"
            /\ result[g] = 0
            /\ Methods(g) = <<"groups.getById">>
            /\ lock # g
            /\ GroupBlock(g) = <<>>
            /\ cpc \in {"gather", "done"}

\* the run has ended: one group failed to resolve, another wrote its records
C22_Witness ==
    /\ cpc = "done"
    /\ \E g, h \in groups :
          /\ vk_group_id_numeric[g] = 0
          /\ result[g] = 0
          /\ vk_group_id_numeric[h] # 0
          /\ GroupBlock(h) # <<>>

\* the posts of group g whose comment fetch was answered with code 18
Code18Posts(g) == {trail[g][i].arg : i \in {j \in 1..Len(trail[g]) : trail[g][j].m = "code18"}}

Ids(q) == [i \in 1..Len(q) |-> q[i].id]

FetchedOffsets(g) ==
    LET at(m) == {trail[g][i].arg : i \in {j \in 1..Len(trail[g]) : trail[g][j].m = m}}
    IN  (at("wall.get") \ at("failed")) \ (IF gpc[g] = "posts" THEN {offset[g]} ELSE {})

Qualifies(q) == StartTs <= q.date /\ q.date <= EndTs /\ Strip(q.text) # <<>>

\* C24: every collected post has a timestamp in [start, end], both bounds
\* included, and a non-empty trimmed text; every post of a fetched page that
\* meets both conditions is collected.
C24_WindowFilter ==
    \A g \in groups :
        /\ \A i \in 1..Len(collected[g]) :
              /\ StartTs <= collected[g][i].date
              /\ collected[g][i].date <= EndTs
              /\ collected[g][i].text # <<>>
              /\ collected[g][i].text = Strip(wall[g][collected[g][i].id].text)
        /\ \A off \in FetchedOffsets(g) :
              \A k \in (off + 1)..(off + PostsChunkSize) :
                  (k <= Len(wall[g]) /\ Qualifies(wall[g][k])) =>
                      \E i \in 1..Len(collected[g]) : collected[g][i].id = k

\* posts dated exactly start and exactly end are collected, a post inside the
\* window with a blank text is not
C24_Witness ==
    \E g \in groups :
        /\ \E i, j \in 1..Len(collected[g]) :
              collected[g][i].date = EndTs /\ collected[g][j].date = StartTs
        /\ \E k \in 1..Len(wall[g]) :
              /\ Strip(wall[g][k].text) = <<>>
              /\ wall[g][k].date = StartTs
              /\ \E off \in FetchedOffsets(g) : off < k /\ k <= off + PostsChunkSize

\* the offsets of the wall.get calls of group g, in the order of the calls
WallGets(g) ==
    LET calls == SelectSeq(trail[g], LAMBDA ev : ev.m = "wall.get")
    IN  [i \in 1..Len(calls) |-> calls[i].arg]

\* the page at offset off ends the pagination
LastPage(g, off) ==
    LET items == Page(wall[g], off)
    IN  \/ items = <<>>
        \/ items[Len(items)].date < StartTs
        \/ Len(items) < PostsChunkSize

\* C25: post pagination starts at offset 0 and advances by the page size; after
\* the first fetched page that is empty, or ends with an item older than the
\* window start, or is shorter than requested, no wall.get follows, and the
\* qualifying items of that page are collected.
C25_PostPagination ==
    \A g \in groups :
        /\ \A i \in 1..Len(WallGets(g)) : WallGets(g)[i] = (i - 1) * PostsChunkSize
        /\ \A i \in 1..Len(WallGets(g)) :
              LET off == WallGets(g)[i]
              IN  (off \in FetchedOffsets(g) /\ LastPage(g, off)) =>
                      /\ i = Len(WallGets(g))
                      /\ gpc[g] # "posts"
                      /\ \A k \in (off + 1)..(off + PostsChunkSize) :
                            (k <= Len(wall[g]) /\ Qualifies(wall[g][k])) =>
                                \E j \in 1..Len(collected[g]) : collected[g][j].id = k

\* a second page was fetched, it is shorter than requested, and a post of it
\* was collected
C25_Witness ==
    \E g \in groups :
        /\ Len(WallGets(g)) = 2
        /\ PostsChunkSize \in FetchedOffsets(g)
        /\ Len(Page(wall[g], PostsChunkSize)) \in 1..(PostsChunkSize - 1)
        /\ \E j \in 1..Len(collected[g]) : collected[g][j].id > PostsChunkSize

\* pagination ended on a page whose oldest item is before the window, and a
\* post of that page was collected
C25_WitnessOld ==
    \E g \in groups :
        /\ WallGets(g) = <<0>>
        /\ 0 \in FetchedOffsets(g)
        /\ Len(Page(wall[g], 0)) = PostsChunkSize
        /\ wall[g][PostsChunkSize].date < StartTs
        /\ collected[g] # <<>>

\* the stage of a group task an event of its trail belongs to
Stage(m) ==
    CASE m = "groups.getById" -> 1
      [] m \in {"wall.get", "failed"} -> 2
      [] m \in {"wall.getComments", "code18"} -> 3
      [] OTHER -> 4

\* the posts of group g whose comments were asked for
CommentCalls(g) ==
    {trail[g][i].arg : i \in {j \in 1..Len(trail[g]) : trail[g][j].m = "wall.getComments"}}

\* the collected posts of group g that report comments
Commented(g) ==
    {collected[g][i].id : i \in {j \in 1..Len(collected[g]) : collected[g][j].ncom > 0}}

\* C28: a group task goes from resolving to posts to comments to its end: no
\* wall.get before groups.getById has succeeded, no wall.getComments before
\* post pagination has finished, wall.getComments only for collected posts
\* that report comments, and the store is written only after all comment
\* fetches of the group have ended.
C28_TaskStages ==
    \A g \in groups :
        /\ \A i, j \in 1..Len(trail[g]) :
              i < j => Stage(trail[g][i].m) <= Stage(trail[g][j].m)
        /\ "wall.get" \in Range(Methods(g)) =>
              /\ vk_group_id_numeric[g] # 0
              /\ gpc[g] # "resolving"
              /\ Methods(g)[1] = "groups.getById"
        /\ CommentCalls(g) # {} => gpc[g] \notin {"resolving", "posts"}
        /\ CommentCalls(g) \subseteq Commented(g)
        /\ (GroupBlock(g) # <<>> \/ lock = g) =>
              /\ inflight[g] = <<>>
              /\ gpc[g] \notin {"resolving", "posts", "comments"}
              /\ CommentCalls(g) = Commented(g)

\* a group wrote its records after a comment fetch; one of its collected posts
\* reports no comments and got no wall.getComments call
C28_Witness ==
    \E g \in groups :
        /\ GroupBlock(g) # <<>>
        /\ CommentCalls(g) # {}
        /\ ~faulted[g]
        /\ \E i \in 1..Len(collected[g]) : collected[g][i].ncom = 0

\* post pagination of group g has ended and no item of a fetched page lies in
\* the window with a non-empty text
NothingToCollect(g) ==
    /\ vk_group_id_numeric[g] # 0
    /\ gpc[g] \notin {"new", "ready", "resolving", "posts"}
    /\ \A off \in FetchedOffsets(g) :
          \A k \in (off + 1)..(off + PostsChunkSize) :
              k <= Len(wall[g]) => ~Qualifies(wall[g][k])

\* C29: a group for which the API returns no post, or no post inside the
\* window with a non-empty text, has a saved count of 0, does not raise, and
\* appends nothing to the store.
C29_NoPostsNoRecords ==
    \A g \in groups :
        NothingToCollect(g) =>
            /\ gpc[g] = "done"
            /\ result[g] = 0
            /\ GroupBlock(g) = <<>>
            /\ lock # g
            /\ \A i \in 1..Len(trail[g]) :
                  trail[g][i].m \notin {"wall.getComments", "writer_lock"}

\* the wall was fetched without error and holds posts, none of which is kept
C29_Witness ==
    \E g \in groups :
        /\ NothingToCollect(g)
        /\ ~faulted[g]
        /\ \E k \in 1..Len(wall[g]) :
              /\ StartTs <= wall[g][k].date /\ wall[g][k].date <= EndTs
              /\ Strip(wall[g][k].text) = <<>>
        /\ result[g] = 0

\* the API returned no post at all
C29_WitnessEmptyWall ==
    \E g \in groups :
        /\ NothingToCollect(g)
        /\ ~faulted[g]
        /\ wall[g] = <<>>
        /\ result[g] = 0

\* the wall of group g is served newest first
NewestFirstWall(g) ==
    \A i, j \in 1..Len(wall[g]) : i < j => wall[g][i].date >= wall[g][j].date

\* post pagination of group g has ended and no wall.get call failed
PaginationEndedCleanly(g) ==
    /\ vk_group_id_numeric[g] # 0
    /\ gpc[g] \notin {"new", "ready", "resolving", "posts"}
    /\ \A i \in 1..Len(trail[g]) : trail[g][i].m # "failed"

\* C35: for a wall served newest first and no API error, _parse_posts collects
\* exactly the posts of the wall with start <= timestamp <= end and non-empty
\* text, each once and in wall order.
C35_CollectsWholeWindow ==
    \A g \in groups :
        (NewestFirstWall(g) /\ PaginationEndedCleanly(g)) =>
            Ids(collected[g]) =
                SelectSeq([k \in 1..Len(wall[g]) |-> k], LAMBDA k : Qualifies(wall[g][k]))

\* a wall of more than one page, newest first, from after the window to its
\* start: the posts inside the window lie on both pages and are collected
C35_Witness ==
    \E g \in groups :
        /\ NewestFirstWall(g) /\ PaginationEndedCleanly(g)
        /\ Len(wall[g]) > PostsChunkSize
        /\ wall[g][1].date > EndTs
        /\ Len(collected[g]) >= 2
        /\ collected[g][1].id <= PostsChunkSize
        /\ collected[g][Len(collected[g])].id > PostsChunkSize

\* fetch_vk_data has returned or raised, and every task it gathered has ended
RunEnded ==
    \/ cpc = "failed"
    \/ cpc = "done" /\ \A g \in groups : gpc[g] \in {"done", "raised"}

\* C36: when every API call returns or fails in the end, every group task
\* ends and fetch_vk_data returns, whatever the interleaving: the writer lock
\* is held only by a task that is writing (so it is free again after a failed
\* write), and a task waiting for the lock holds no permit of its semaphore.
C36_RunTerminates ==
    /\ <>RunEnded
    /\ [](\A g \in groups :
             /\ lock = g => gpc[g] = "writing"
             /\ gpc[g] \in {"lockwait", "writing"} => (permits[g] = 0 /\ inflight[g] = <<>>))

\* the run has ended; one task failed while writing, the other one wrote its
\* records
C36_Witness ==
    /\ cpc = "done"
    /\ lock = 0
    /\ \E g, h \in groups :
          /\ batch[g] # <<>> /\ GroupBlock(g) = <<>>
          /\ gpc[g] \in {"done", "raised"}
          /\ GroupBlock(h) # <<>>
          /\ result[h] > 0

\* a wall.get call of group g failed at an offset above 0, that is after the
\* pages before it had been fetched
PageFailedAfterSuccess(g) ==
    \E i \in 1..Len(trail[g]) : trail[g][i].m = "failed" /\ trail[g][i].arg > 0

\* C37: when a wall.get page call fails for good after earlier pages were
\* fetched, pagination stops, the posts collected from the earlier pages are
\* kept, their comments are fetched, they are written and counted in the saved
\* count of the group, and the task does not raise because of the error.
C37_PageErrorKeepsEarlierPosts ==
    \A g \in groups :
        PageFailedAfterSuccess(g) =>
            LET o == offset[g]
                got == SelectSeq([k \in 1..o |-> k],
                                 LAMBDA k : k <= Len(wall[g]) /\ Qualifies(wall[g][k]))
                locked == \E i \in 1..Len(trail[g]) : trail[g][i].m = "writer_lock"
            IN  /\ gpc[g] # "posts"
                /\ WallGets(g)[Len(WallGets(g))] = o
                /\ FetchedOffsets(g) = {(i - 1) * PostsChunkSize : i \in 1..(Len(WallGets(g)) - 1)}
                /\ Ids(collected[g]) = got
                /\ gpc[g] \in {"lockwait", "writing", "done", "raised"} =>
                      CommentCalls(g) = Commented(g)
                /\ (gpc[g] \in {"lockwait", "writing"} \/ locked) =>
                      Ids(batch[g]) = Ids(collected[g])
                /\ (gpc[g] \in {"done", "raised"} /\ collected[g] # <<>>) => locked
                /\ GroupBlock(g) = SubSeq(WriteOrder(batch[g]), 1, saved[g])
                /\ (gpc[g] = "done" /\ saved[g] = Len(collected[g])) =>
                      result[g] = Len(collected[g])

\* the second page call failed; the posts of the first page were written after
\* a comment fetch and make up the saved count
C37_Witness ==
    \E g \in groups :
        /\ PageFailedAfterSuccess(g)
        /\ gpc[g] = "done"
        /\ CommentCalls(g) # {}
        /\ result[g] = Len(collected[g])
        /\ result[g] > 0
        /\ Len(GroupBlock(g)) = result[g]

RECURSIVE SavedSum(_)
\* the sum of the saved counts the group tasks returned, 0 for a task that
\* failed or raised
SavedSum(G) ==
    IF G = {} THEN 0
    ELSE LET g == CHOOSE h \in G : TRUE
         IN  (IF gpc[g] = "done" /\ ~faulted[g] THEN result[g] ELSE 0) + SavedSum(G \ {g})

\* C16: fetch_vk_data returns the path of the store together with the total
\* number of records persisted, the sum of the saved counts of the groups with
\* 0 for every group that failed.
C16_ReturnsPathAndTotal ==
    cpc = "done" => fetchRet = <<OutputFile, SavedSum(groups)>>

\* C17: the saved count a group task returns is the number of records the
\* group appended to the store, in every outcome, and the total of the run is
\* the number of records in the store at its end.
C17_SavedCountIsWritten ==
    /\ \A g \in groups : gpc[g] = "done" => result[g] = Len(GroupBlock(g))
    /\ cpc = "done" => total = Len(store)

\* C18: with more than one group the fetchers start staggered: the fetcher of
\* group g has issued its first call before that of group g+1 starts, and the
\* two starts are at least the fixed delay apart.
C18_StaggeredStart ==
    Cardinality(groups) > 1 =>
        \A g, h \in groups :
            (h = g + 1 /\ startedAt[h] >= 0) =>
                (startedAt[g] >= 0 /\ startedAt[h] >= startedAt[g] + StaggerDelay)

WallCalls(g) == SelectSeq(inflight[g], LAMBDA c : c \in {"wall.get", "wall.getComments"})

\* C19: the wall.get and wall.getComments calls of one group in flight never
\* exceed the capacity of its semaphore; a permit is held around one call
\* only, so the permits in use are exactly the wall calls in flight, and none
\* is held by a task that waits for the writer lock, writes or has ended.
C19_SemaphoreBound ==
    \A g \in groups :
        /\ Len(WallCalls(g)) <= SemCapacity
        /\ permits[g] = Len(WallCalls(g))
        /\ permits[g] <= SemCapacity
        /\ gpc[g] \in {"lockwait", "writing", "done", "raised"} => permits[g] = 0

\* a task that went through two pages and a comments call waits for the writer
\* lock
C19_Witness ==
    \E g \in groups :
        /\ gpc[g] = "lockwait"
        /\ offset[g] >= PostsChunkSize
        /\ \E i \in 1..Len(batch[g]) : batch[g][i].comments > 0
        /\ permits[g] = 0

\* the group has two posts with comments that a run collects
TwoPostsWithComments(g) ==
    \E i, j \in 1..Len(wall[g]) :
        /\ i < j
        /\ \A k \in {i, j} :
              /\ wall[g][k].ncom > 0
              /\ Strip(wall[g][k].text) # EmptyName
              /\ wall[g][k].date >= StartTs
              /\ wall[g][k].date <= EndTs

\* C20: for a group with at least two posts with comments (the semaphore
\* capacity being at least 2) a run in which nothing fails comes to a state in
\* which two API calls of the group are in flight.
C20_CallsOverlap ==
    (SemCapacity >= 2 /\ \E g \in groups : TwoPostsWithComments(g) /\ NewestFirst(wall[g])) =>
        <>(\/ \E g \in groups : Len(inflight[g]) >= 2
           \/ \E g \in groups : faulted[g]
           \/ cpc = "failed")

\* what holds instead: a group never has more than one API call in flight
OneCallPerGroup == \A g \in groups : Len(inflight[g]) <= 1

----------------------------------------------------------------------------
(* Properties of _parse_comments_for_post *)

\* C26: with a ceiling set, the comments collected for a post never exceed it,
\* every wall.getComments call asks for at most min(comments_chunk_size,
\* ceiling - collected so far) items, and no call is made once the ceiling is
\* reached.
C26_CommentCeiling ==
    max_comments_per_post # None =>
        /\ fetched_count = Len(collected_comments_data)
        /\ Len(collected_comments_data) <= max_comments_per_post
        /\ \A i \in 1..Len(asked) :
              /\ asked[i].count <= Min(CommentsChunkSize, max_comments_per_post - asked[i].had)
              /\ asked[i].count >= 1
              /\ asked[i].had < max_comments_per_post

\* the ceiling was reached by a second call that asked for fewer than a chunk,
\* and the feed holds more
C26_Witness ==
    /\ max_comments_per_post # None
    /\ comPc = "returned"
    /\ Len(collected_comments_data) = max_comments_per_post
    /\ Len(asked) = 2
    /\ asked[2].count < CommentsChunkSize
    /\ Len(feed) > max_comments_per_post

\* the position of the first comment newer than the window end (one past the
\* feed when there is none)
FirstNewer ==
    LET newer == {k \in 1..Len(feed) : feed[k].date > EndTs}
    IN  IF newer = {} THEN Len(feed) + 1
        ELSE CHOOSE k \in newer : \A j \in newer : k <= j

\* the comments before the first newer one that lie in the window and have text
Eligible ==
    SelectSeq([k \in 1..(FirstNewer - 1) |-> k], LAMBDA k : Qualifies(feed[k]))

\* C27: a comment older than the window start is skipped and pagination goes
\* on with the comments and pages after it; the first comment newer than the
\* window end stops pagination for the post; every collected comment has
\* start <= timestamp <= end and a non-empty text.
C27_CommentWindow ==
    /\ \A i \in 1..Len(collected_comments_data) :
          LET c == collected_comments_data[i]
          IN  /\ StartTs <= c.date /\ c.date <= EndTs
              /\ c.text # <<>>
              /\ c.text = Strip(feed[c.id].text)
              /\ i <= Len(Eligible) /\ c.id = Eligible[i]
    /\ (comPc = "returned" /\ ~comFailed /\ max_comments_per_post = None) =>
          Len(collected_comments_data) = Len(Eligible)
    /\ \A i \in 1..Len(asked) : asked[i].offset < FirstNewer

\* a comment older than the window was skipped and a comment of the next page
\* was collected
C27_Witness ==
    /\ comPc = "returned"
    /\ Len(feed) > CommentsChunkSize
    /\ feed[1].date < StartTs
    /\ \E i \in 1..Len(collected_comments_data) :
          collected_comments_data[i].id > CommentsChunkSize

\* a comment newer than the window ended the pagination although the next
\* page holds a comment inside the window
C27_WitnessStop ==
    /\ comPc = "returned"
    /\ ~comFailed
    /\ max_comments_per_post = None
    /\ FirstNewer <= CommentsChunkSize
    /\ Len(asked) = 1
    /\ \E k \in (CommentsChunkSize + 1)..Len(feed) : Qualifies(feed[k])

----------------------------------------------------------------------------
(* Properties of _call_method *)

OnlyCode6(q) == \A i \in 1..Len(q) : q[i] = "err6"

BackoffSleeps == SelectSeq(sleeps, LAMBDA z : z.kind = "backoff")

\* C10: when the first k answers (k < max_retries) carry error code 6 and the
\* next one succeeds, the call returns the payload and the backoff sleeps are
\* base_delay*2^0, ..., base_delay*2^(k-1) in that order.
C10_Code6Backoff ==
    LET n == Len(resps)
    IN  (/\ n >= 1
         /\ resps[n] = "ok"
         /\ OnlyCode6(SubSeq(resps, 1, n - 1))
         /\ n - 1 < max_retries) =>
            /\ callPc = "returned"
            /\ callResult = Payload
            /\ BackoffSleeps =
                  [i \in 1..(n - 1) |-> Slept("backoff", BaseRetryDelay * Pow2(i - 1))]
            /\ SumOver([i \in DOMAIN BackoffSleeps |-> BackoffSleeps[i].dur],
                       DOMAIN BackoffSleeps) = BaseRetryDelay * (Pow2(n - 1) - 1)

\* code 6 twice, then success
C10_Witness ==
    /\ callPc = "returned"
    /\ resps = <<"err6", "err6", "ok">>

Last(q) == q[Len(q)]

\* the step is a request of the call answered with one of rs
Answered(rs) == resps' # resps /\ Last(resps') \in rs

\* C11: an error object whose code is neither 6 nor 29 ends the call at once
\* with an error carrying that code: no sleep is performed, and no request is
\* issued afterwards, whatever the attempt and the remaining budget.
C11_FatalCodeAtOnce ==
    [][/\ Answered({"err18", "err5"}) =>
             /\ callPc' = "raised"
             /\ callResult'.kind = "VKAPIError"
             /\ callResult'.code = (IF Last(resps') = "err18" THEN 18 ELSE 5)
             /\ sleeps' = sleeps
       /\ (callPc = "raised" /\ resps # <<>> /\ Last(resps) \in {"err18", "err5"}) =>
             (requests' = requests /\ sleeps' = sleeps /\ callPc' = "raised")]_vars

\* code 18 on the second of three attempts
C11_Witness ==
    /\ callPc = "raised"
    /\ max_retries = 3
    /\ resps = <<"err6", "err18">>
    /\ requests = 2
    /\ callResult.code = 18

\* C12: an answer with error code 29 on attempt a is followed by a sleep of
\* rate_limit_delay + a*5 and, unless a is the last attempt, by the next
\* attempt.
C12_RateLimitSleep ==
    [][Answered({"err29"}) =>
          /\ sleeps' = Append(sleeps, Slept("rate", RateLimitDelay + attempt * RateLimitStep))
          /\ attempt < max_retries - 1 => (callPc' = "running" /\ attempt' = attempt + 1)]_vars

\* code 29 on attempts 0 and 1, the third attempt pending
C12_Witness ==
    /\ callPc = "running"
    /\ resps = <<"err29", "err29">>
    /\ attempt = 2
    /\ sleeps = <<Slept("rate", RateLimitDelay), Slept("rate", RateLimitDelay + RateLimitStep)>>

\* C13: a transport failure, connection error or timeout, on attempt a is
\* followed by a sleep of base_delay*2^a and another attempt when
\* a < max_retries-1, and ends the call with a VKAPIError on the last attempt.
C13_TransportFailure ==
    [][Answered({"client_error", "timeout"}) =>
          IF attempt < max_retries - 1
          THEN /\ sleeps' = Append(sleeps, Slept("backoff", BaseRetryDelay * Pow2(attempt)))
               /\ callPc' = "running"
               /\ attempt' = attempt + 1
          ELSE /\ callPc' = "raised"
               /\ callResult'.kind = "VKAPIError"]_vars

AllFailed(q) == q # <<>> /\ \A i \in 1..Len(q) : q[i] \in {"nonjson", "client_error"}

\* C14 as stated: when all max_retries attempts fail with an unexpected content
\* type or a transport failure, the call ends with the generic error raised
\* after the retry loop.
C14_GenericExhausted ==
    (callPc = "raised" /\ Len(resps) = max_retries /\ AllFailed(resps)) =>
        callResult = VKAPIError("exhausted", 0)

\* C14, amended: when all max_retries attempts fail with an unexpected content
\* type or a connection error, the call ends with the error of its last
\* attempt (the content-type error, or the error wrapping the connection
\* error); the generic error after the loop is raised only by a client built
\* with max_retries = 0.
C14_LastAttemptError ==
    /\ (callPc = "raised" /\ Len(resps) = max_retries /\ AllFailed(resps)) =>
           callResult = (IF Last(resps) = "nonjson" THEN VKAPIError("content_type", 0)
                         ELSE VKAPIError("network", 0))
    /\ (callPc = "raised" /\ callResult = VKAPIError("exhausted", 0)) =>
           (max_retries = 0 /\ requests = 0)

\* three attempts failed, the last one with an unexpected content type
C14_Witness ==
    /\ callPc = "raised"
    /\ max_retries = 3
    /\ resps = <<"nonjson", "client_error", "nonjson">>

\* C15: a call issues at most max_retries requests; every step of a running
\* call issues one more request or ends the call, and a call that has ended
\* holds a payload or an error and issues nothing more.
C15_BoundedRequests ==
    [][/\ requests' <= max_retries'
       /\ callPc = "running" =>
             \/ requests' = requests + 1
             \/ callPc' \in {"returned", "raised"}
       /\ callPc' \in {"returned", "raised"} => callResult'.kind # "none"
       /\ callPc \in {"returned", "raised"} => requests' = requests]_vars

\* the whole budget of three requests used
C15_Witness ==
    /\ callPc = "raised"
    /\ max_retries = 3
    /\ requests = 3

----------------------------------------------------------------------------
(* Properties of the aggregation engine *)

\* what the running aggregation holds is what aggregating the complete pairs
\* alone gives
SkippedNeverCount ==
    aggPc \in {"agg", "failed"} =>
        LET st == AggregateComplete([summary |-> EmptyDict, mentions |-> <<>>, ok |-> TRUE],
                                    validPairs)
        IN  /\ heapS[Cur] = st.summary
            /\ heapM[Cur] = st.mentions

\* C30: the aggregation tolerates bad records without failing: a text without
\* metadata, a text whose metadata has no usable timestamp and a judgment
\* with an empty entity name or label are skipped, and the result is that of
\* aggregating the remaining complete pairs alone.
C30_ToleratesBadRecords ==
    /\ aggPc # "failed"
    /\ SkippedNeverCount

\* a complete judgment was counted, and a judgment without label, a text
\* without timestamp or a text without metadata was passed over
SkippedSome ==
    /\ aggPc = "agg"
    /\ validPairs # <<>>
    /\ nSeen > Len(validPairs)
    /\ heapM[Cur] # <<>>

\* sum of all counts of a date map
ClaimSumDates(dm) ==
    SumOver([d \in DOMAIN dm |-> SumOver(dm[d], DOMAIN dm[d])], DOMAIN dm)

\* sum(S.get(e, {}) counts over all dates and labels)
ClaimTotal(S, e) == IF e \in DOMAIN S THEN ClaimSumDates(S[e]) ELSE 0

\* a merge call with a non-blank canonical name has returned
ClaimMerged == aggPc = "returned" /\ Strip(callArgs.canonical) # EmptyName

\* C4: a merge with non-blank canonical C conserves totals: the counts under C
\* in the new summary sum to the counts the input held under the distinct names
\* of aliases and C, and no alias other than C is a key of the new summary.
C4_MergeConservesTotals ==
    ClaimMerged =>
        LET S == heapS[Cur]
            N == heapS[retS]
            C == callArgs.canonical
            names == Range(callArgs.aliases) \cup {C}
        IN  /\ ClaimTotal(N, C) = SumOver([e \in names |-> ClaimTotal(S, e)], names)
            /\ \A a \in Range(callArgs.aliases) \ {C} : a \notin DOMAIN N

\* two aliases with counts are merged into a third name
C4_Witness ==
    /\ ClaimMerged
    /\ callArgs.aliases = <<NameA, NameB>>
    /\ callArgs.canonical = NameC
    /\ ClaimTotal(heapS[Cur], NameA) > 0
    /\ ClaimTotal(heapS[Cur], NameB) > 0
    /\ ClaimTotal(heapS[retS], NameC) = 2

\* C5: after a merge of records shaped as the detail mention log, every
\* returned record whose entity was a merged alias carries the canonical name
\* and no returned record names a merged alias other than the canonical.
C5_MentionsRewritten ==
    ClaimMerged =>
        LET M == heapM[Cur]
            R == heapM[retM]
            C == callArgs.canonical
            al == Range(callArgs.aliases)
        IN  /\ Len(R) = Len(M)
            /\ \A i \in DOMAIN M :
                   M[i].entity_normalized \in al => R[i].entity_normalized = C
            /\ \A i \in DOMAIN R : R[i].entity_normalized \notin al \ {C}

\* C6: reaggregate_with_aliases leaves the collections passed in unchanged,
\* and a later in-place change of a returned collection leaves them unchanged.
C6_InputsIndependent ==
    [][(aggPc \in {"aggregated", "ready", "returned"} /\ aggPc' \in {"returned", "mutated"})
          => (heapS'[Cur] = heapS[Cur] /\ heapM'[Cur] = heapM[Cur])]_vars

\* C7: with an empty or whitespace-only canonical name the returned summary and
\* mention list equal the ones passed in, whatever the alias list.
C7_BlankCanonicalIdentity ==
    (aggPc = "returned" /\ Strip(callArgs.canonical) = EmptyName) =>
        /\ heapS[retS] = heapS[Cur]
        /\ heapM[retM] = heapM[Cur]

\* a whitespace-only canonical name with an alias that is a key of the summary
C7_Witness ==
    /\ aggPc = "returned"
    /\ callArgs.canonical = BlankName
    /\ \E a \in Range(callArgs.aliases) : a \in DOMAIN heapS[Cur]
    /\ heapM[Cur] # <<>>

\* C8: after aggregation, for every entity E and date D the counts of
\* summary[E][D] sum to the number of mention records of E on D; each known
\* label counts the records with that polarity and UNKNOWN the others.
C8_SummaryMatchesMentions ==
    aggPc \in {"agg", "aggregated"} =>
        LET S == heapS[Cur]
            M == heapM[Cur]
            Recs(E, D) == {i \in DOMAIN M : M[i].entity_normalized = E /\ M[i].date = D}
            Es == (DOMAIN S) \cup {M[i].entity_normalized : i \in DOMAIN M}
            Ds == {DateKey(n) : n \in Timestamps}
        IN  \A E \in Es, D \in Ds :
                IF E \in DOMAIN S /\ D \in DOMAIN S[E]
                THEN /\ SumOver(S[E][D], DOMAIN S[E][D]) = Cardinality(Recs(E, D))
                     /\ \A l \in Labels :
                            S[E][D][l] = Cardinality({i \in Recs(E, D) : M[i].polarity = l})
                     /\ S[E][D][Unknown] =
                            Cardinality({i \in Recs(E, D) : M[i].polarity \notin Labels})
                ELSE Recs(E, D) = {}

\* one bucket counts a known and an unrecognised label
C8_Witness ==
    /\ aggPc = "aggregated"
    /\ \E E \in DOMAIN heapS[Cur] : \E D \in DOMAIN heapS[Cur][E] :
           /\ heapS[Cur][E][D]["POS"] = 1
           /\ heapS[Cur][E][D][Unknown] = 1

\* C9: in the summary aggregation builds and in every summary a sequence of
\* merges makes of it, each (entity, date) bucket has exactly the keys
\* Labels and UNKNOWN.
C9_BucketKeys ==
    aggPc \in {"agg", "aggregated", "ready", "returned"} =>
        \A slot \in {Cur, Fresh} : \A E \in DOMAIN heapS[slot] :
            \A D \in DOMAIN heapS[slot][E] :
                DOMAIN heapS[slot][E][D] = Labels \cup {Unknown}

\* a second merge creates a date bucket under a canonical name that a first
\* merge had put into the summary
C9_Witness ==
    /\ ClaimMerged
    /\ callArgs.canonical = NameC
    /\ NameC \in DOMAIN heapS[Cur]
    /\ \E a \in Range(callArgs.aliases) :
           /\ a \in DOMAIN heapS[Cur]
           /\ \E D \in DOMAIN heapS[Cur][a] :
                  /\ D \notin DOMAIN heapS[Cur][NameC]
                  /\ D \in DOMAIN heapS[retS][NameC]

\* the aliases of the last merge call that differ from the canonical name and
\* are keys of the summary passed in
PresentAliases ==
    {a \in Range(callArgs.aliases) \ {callArgs.canonical} : a \in DOMAIN heapS[Cur]}

\* C31: in a merge with a non-blank canonical name, an alias that is not a key
\* of the summary is skipped without changing any count, and the canonical
\* name is always a key of the returned summary, with an empty date map when
\* it was new and no present alias contributed to it.
C31_AbsentAliasSkipped ==
    ClaimMerged =>
        LET S == heapS[Cur]
            N == heapS[retS]
            C == callArgs.canonical
        IN  /\ C \in DOMAIN N
            /\ DOMAIN N = ((DOMAIN S) \ PresentAliases) \cup {C}
            /\ \A e \in (DOMAIN N) \ {C} : N[e] = S[e]
            /\ PresentAliases = {} =>
                   N[C] = IF C \in DOMAIN S THEN S[C] ELSE EmptyDict

\* a merge whose only alias is not a key of the summary, into a new name
C31_Witness ==
    /\ ClaimMerged
    /\ callArgs.aliases # <<>>
    /\ PresentAliases = {}
    /\ callArgs.canonical \notin Range(callArgs.aliases)
    /\ callArgs.canonical \notin DOMAIN heapS[Cur]
    /\ heapS[Cur] # EmptyDict
    /\ heapS[retS][callArgs.canonical] = EmptyDict

\* for every entity and date, the counts of the bucket sum to the number of
\* mention records of that entity and date
Consistent(S, M) ==
    LET Recs(E, D) == {i \in DOMAIN M : M[i].entity_normalized = E /\ M[i].date = D}
        Es == (DOMAIN S) \cup {M[i].entity_normalized : i \in DOMAIN M}
        Ds == {DateKey(n) : n \in Timestamps}
    IN  \A E \in Es, D \in Ds :
            IF E \in DOMAIN S /\ D \in DOMAIN S[E]
            THEN SumOver(S[E][D], DOMAIN S[E][D]) = Cardinality(Recs(E, D))
            ELSE Recs(E, D) = {}

\* C34: after any sequence of alias merges with non-blank canonical names,
\* applied to the output of the aggregation, for every entity E and date D the
\* counts of summary[E][D] sum to the number of mention records with
\* entity_normalized E and date D.
C34_MergeKeepsConsistency ==
    /\ ClaimMerged => Consistent(heapS[retS], heapM[retM])
    /\ aggPc = "ready" => Consistent(heapS[Cur], heapM[Cur])

\* S[e][D][L], 0 if absent
CountAt(S, e, D, L) ==
    IF e \in DOMAIN S /\ D \in DOMAIN S[e] /\ L \in DOMAIN S[e][D] THEN S[e][D][L] ELSE 0

\* the dates under entity e of S, none if e is not a key
DatesOf(S, e) == IF e \in DOMAIN S THEN DOMAIN S[e] ELSE {}

\* C38: a merge with non-blank canonical C adds counts per date and per label:
\* new_summary[C][D][L] is S[C][D][L] (0 if absent) plus the sum of S[A][D][L]
\* over the distinct aliases A other than C that are keys of S, and C has a
\* date bucket exactly for the dates under C or under one of those aliases.
C38_MergeAddsPerDateAndLabel ==
    ClaimMerged =>
        LET S == heapS[Cur]
            N == heapS[retS]
            C == callArgs.canonical
            As == PresentAliases \ {C}
            dates == DatesOf(S, C) \cup UNION {DatesOf(S, a) : a \in As}
        IN  /\ C \in DOMAIN N
            /\ DOMAIN N[C] = dates
            /\ \A D \in dates :
                  /\ Labels \cup {Unknown} \subseteq DOMAIN N[C][D]
                  /\ \A L \in DOMAIN N[C][D] :
                        N[C][D][L] = CountAt(S, C, D, L)
                                       + SumOver([a \in As |-> CountAt(S, a, D, L)], As)

\* the canonical name and an alias both hold a count for the same date and
\* label, and the merged bucket holds their sum
C38_Witness ==
    /\ ClaimMerged
    /\ \E a \in PresentAliases \ {callArgs.canonical} :
          \E D \in DatesOf(heapS[Cur], a), L \in Labels \cup {Unknown} :
              /\ CountAt(heapS[Cur], callArgs.canonical, D, L) > 0
              /\ CountAt(heapS[Cur], a, D, L) > 0
              /\ CountAt(heapS[retS], callArgs.canonical, D, L) = 2

\* two aliases with different dates are merged into a name that was not a key:
\* the new entry has both dates
C38_WitnessDates ==
    /\ ClaimMerged
    /\ callArgs.canonical \notin DOMAIN heapS[Cur]
    /\ Cardinality(PresentAliases) = 2
    /\ Cardinality(DOMAIN heapS[retS][callArgs.canonical]) = 2

\* the names a merge call is about: its aliases and its canonical name
MergedSet == Range(callArgs.aliases) \cup {callArgs.canonical}

\* the keys of a mention record that hold its entity name
EntityKeys == {"entity", "entity_normalized"}

\* C39: a merge leaves everything outside the merged set untouched: an entity
\* that is neither the canonical name nor an alias has the same date buckets
\* and counts in the returned summary as in the input, and every mention
\* record keeps all of its fields other than its entity name.
C39_MergeFrame ==
    ClaimMerged =>
        LET S == heapS[Cur]
            N == heapS[retS]
            M == heapM[Cur]
            R == heapM[retM]
        IN  /\ (DOMAIN N) \ MergedSet = (DOMAIN S) \ MergedSet
            /\ \A e \in (DOMAIN S) \ MergedSet : N[e] = S[e]
            /\ Len(R) = Len(M)
            /\ \A i \in DOMAIN M :
                  /\ DOMAIN R[i] = DOMAIN M[i]
                  /\ \A f \in (DOMAIN M[i]) \ EntityKeys : R[i][f] = M[i][f]

\* an alias with counts and a mention record is merged while another entity,
\* also with counts and a mention record, is outside the merged set
C39_Witness ==
    /\ ClaimMerged
    /\ PresentAliases # {}
    /\ \E e \in (DOMAIN heapS[Cur]) \ MergedSet :
          /\ ClaimTotal(heapS[Cur], e) > 0
          /\ \E i \in DOMAIN heapM[Cur] : heapM[Cur][i].entity_normalized = e
    /\ \E i \in DOMAIN heapM[Cur] : heapM[Cur][i].entity_normalized \in PresentAliases

RECURSIVE OneByOne(_, _, _, _)
\* the summary after one merge call per alias of the list, in list order, each
\* applied to the result of the call before it
OneByOne(S, M, aliases, canonical) ==
    IF aliases = <<>> THEN Reaggregate(S, M, <<>>, canonical).summary
    ELSE LET r == Reaggregate(S, M, <<Head(aliases)>>, canonical)
         IN  OneByOne(r.summary, r.mentions, Tail(aliases), canonical)

\* C40: merging into one canonical name composes: one call per alias, each on
\* the result of the call before, gives the same summary as one call with the
\* whole alias list and as one call with the list in the opposite order; the
\* same call applied to its own result changes nothing, also when the list
\* holds the canonical name or a repeated alias.
C40_MergeComposes ==
    ClaimMerged =>
        LET S == heapS[Cur]
            M == heapM[Cur]
            N == heapS[retS]
            R == heapM[retM]
            al == callArgs.aliases
            C == callArgs.canonical
            again == Reaggregate(N, R, al, C)
        IN  /\ OneByOne(S, M, al, C) = N
            /\ Reaggregate(S, M, Reverse(al), C).summary = N
            /\ again.summary = N
            /\ again.mentions = R

\* a list of two different aliases, both keys with counts, is merged into a
\* third name, which gets the counts of both
C40_Witness ==
    /\ ClaimMerged
    /\ Cardinality(PresentAliases) = 2
    /\ ClaimTotal(heapS[Cur], callArgs.canonical) + 2 <= ClaimTotal(heapS[retS], callArgs.canonical)

\* the alias list holds the canonical name, which has counts, and an alias
\* with counts
C40_WitnessCanonicalListed ==
    /\ ClaimMerged
    /\ callArgs.canonical \in Range(callArgs.aliases)
    /\ PresentAliases # {}
    /\ ClaimTotal(heapS[Cur], callArgs.canonical) > 0
    /\ ClaimTotal(heapS[retS], callArgs.canonical) = 2

\* the alias list names the same alias twice
C40_WitnessRepeated ==
    /\ ClaimMerged
    /\ Len(callArgs.aliases) = 2
    /\ callArgs.aliases[1] = callArgs.aliases[2]
    /\ PresentAliases # {}
    /\ ClaimTotal(heapS[retS], callArgs.canonical) = 2

----------------------------------------------------------------------------
(* Properties of the merge session *)

\* the baseline pair is the pair of the most recent successful analysis
BaselineIsLastAnalysis ==
    /\ lastAnalysis # NoneVal
    /\ initial_summary = Some(lastAnalysis[1].summary)
    /\ initial_detailed_mentions = Some(lastAnalysis[1].mentions)

\* C32: in the merge session, after any sequence of analysis runs, merges and
\* resets: a merge never changes the baseline pair; whenever reset is offered
\* (the baseline summary is present) the baseline summary and the baseline
\* mentions are those of the most recent successful analysis; a reset makes
\* the displayed summary and mentions equal to the baseline.
C32_BaselineKept ==
    /\ [](initial_summary # NoneVal => BaselineIsLastAnalysis)
    /\ [](lastClick = "reset" =>
              /\ current_summary_display = initial_summary
              /\ current_detailed_mentions_display = initial_detailed_mentions)
    /\ [][lastClick' = "merge" =>
              /\ initial_summary' = initial_summary
              /\ initial_detailed_mentions' = initial_detailed_mentions]_vars

\* two persons of the last analysis were merged into a new name: the display
\* differs from the baseline, which is still that of the analysis
C32_Witness ==
    /\ lastClick = "merge"
    /\ BaselineIsLastAnalysis
    /\ current_summary_display # initial_summary
    /\ NameC \in DOMAIN current_summary_display[1]
    /\ Len(initial_detailed_mentions[1]) = 2

\* a reset was made while the baseline holds two persons
C32_WitnessReset ==
    /\ lastClick = "reset"
    /\ Cardinality(DOMAIN initial_summary[1]) = 2
    /\ current_summary_display = initial_summary

----------------------------------------------------------------------------
(* Properties of run_full_analysis *)

\* the stages of the call that raised
RaisedIn == {runData[i][1] : i \in {j \in DOMAIN runData : runData[j][2] = "raise"}}

\* the arguments name no group, hold a text that is no date, or a start after
\* the end
BadArguments ==
    \/ \A i \in DOMAIN runArgs.group_identifiers_str :
           \A j \in DOMAIN runArgs.group_identifiers_str[i] :
               runArgs.group_identifiers_str[i][j] = Space
    \/ runArgs.date_start_str = <<"text">>
    \/ runArgs.date_end_str = <<"text">>
    \/ (runArgs.date_start_str = <<"ymd", 2>> /\ runArgs.date_end_str = <<"ymd", 1>>)

\* C33: run_full_analysis reports failure as a result: with an empty group
\* list, an unparsable date or a start date after the end date it returns an
\* error result without starting the collector, and an exception of the
\* collector, the preprocessing or the model becomes an error result and
\* does not leave the call.
C33_StructuredFailure ==
    /\ BadArguments =>
          /\ fetchStarted = 0
          /\ runPc \in {"validate", "returned"}
          /\ runPc = "returned" => (runResult # NoneVal /\ runResult[1].kind = "error")
    /\ (RaisedIn \cap {"fetch", "preprocess", "nlp"} # {}) =>
          /\ runPc = "returned"
          /\ runResult # NoneVal
          /\ runResult[1].kind = "error"

\* the collector ran and the model raised: an error result
C33_Witness ==
    /\ runPc = "returned"
    /\ fetchStarted = 1
    /\ "nlp" \in RaisedIn
    /\ runResult[1].kind = "error"

\* a start date after the end date: an error result, the collector not started
C33_WitnessDates ==
    /\ runPc = "returned"
    /\ ~runArgs.pipeline_initialization_error
    /\ GroupList(runArgs.group_identifiers_str) # <<>>
    /\ runArgs.date_start_str = <<"ymd", 2>>
    /\ runArgs.date_end_str = <<"ymd", 1>>
    /\ runResult[1].kind = "error"
    /\ fetchStarted = 0

====
